---- MODULE Spec2Model ----
(***************************************************************************)
(* Spectarr: shelf-photo scan pipeline and catalog matching.               *)
(*                                                                         *)
(* Two layers are modelled.                                                *)
(*  - The matching layer (lib/metadata, lib/tvdb, lib/plex): pure          *)
(*    operators over character sequences, exact rational scores and        *)
(*    catalog responses ("worlds").  SpecResolve applies them to inputs    *)
(*    drawn from bounded sets.                                             *)
(*  - The scan pipeline (lib/scan-orchestrator, the API routes, lib/sse):  *)
(*    runs with one position per suspension point (await), the persisted   *)
(*    rows, and each run's event stream.  Spec is its specification.       *)
(***************************************************************************)
EXTENDS Integers, Sequences, FiniteSets, TLC

\* ───────────────────────── Bounds ─────────────────────────
MaxCand == 2
MaxItems == 2
MaxRuns == 1
MaxConcurrent == 2
MaxRequests == 2

\* ───────────────────────── Generic helpers ─────────────────────────
Null == "null"

Min2(a, b) == IF a <= b THEN a ELSE b
Max2(a, b) == IF a >= b THEN a ELSE b
Min3(a, b, c) == Min2(a, Min2(b, c))
SetMin(S) == CHOOSE x \in S : \A y \in S : x <= y
SetMax(S) == CHOOSE x \in S : \A y \in S : y <= x

\* Exact rationals [n, d] with d > 0 stand for the doubles of the code.
Frac(n, d) == [n |-> n, d |-> d]
FracGT(x, y) == x.n * y.d > y.n * x.d
FracGE(x, y) == x.n * y.d >= y.n * x.d
FracLT(x, y) == x.n * y.d < y.n * x.d
FracAdd(x, y) == Frac(x.n * y.d + y.n * x.d, x.d * y.d)
FracMax(x, y) == IF FracGE(x, y) THEN x ELSE y
FracMin(x, y) == IF FracGE(y, x) THEN x ELSE y
FZero == Frac(0, 1)
FOne == Frac(1, 1)

\* ───────────────────────── Character sequences ─────────────────────────
\* A string is a sequence of one-character strings.
LowerOf(c) ==
  CASE c = "S" -> "s"
    [] c = "T" -> "t"
    [] c = "U" -> "u"
    [] c = "V" -> "v"
    [] c = "X" -> "x"
    [] OTHER -> c

toLowerCase(s) == [i \in 1..Len(s) |-> LowerOf(s[i])]

IsWS(c) == c = " "
IsDigit(c) == c \in {"0", "1", "2", "3", "4", "5", "6", "7", "8", "9"}
IsLowerAlnum(c) == IsDigit(c) \/ c \in {"a", "b", "c", "d", "e", "f", "g", "h", "i", "j", "k", "l", "m",
                                         "n", "o", "p", "q", "r", "s", "t", "u", "v", "w", "x", "y", "z"}

trimBetween(s, nonWs) ==
  IF nonWs = {} THEN <<>> ELSE SubSeq(s, SetMin(nonWs), SetMax(nonWs))

trim(s) == trimBetween(s, {i \in 1..Len(s) : ~IsWS(s[i])})

StartsWithAt(s, p, w) ==
  /\ p + Len(w) - 1 <= Len(s)
  /\ \A i \in 1..Len(w) : LowerOf(s[p + i - 1]) = w[i]

\* ── Regular-expression pieces: each maps a set of start positions to the
\*    set of positions just after a match (positions are 1..Len(s)+1).
WsStar(s, P) == UNION {{q \in p..(Len(s) + 1) : \A i \in p..(q - 1) : IsWS(s[i])} : p \in P}
WsPlus(s, P) == UNION {{q \in (p + 1)..(Len(s) + 1) : \A i \in p..(q - 1) : IsWS(s[i])} : p \in P}
DigitsPlus(s, P) == UNION {{q \in (p + 1)..(Len(s) + 1) : \A i \in p..(q - 1) : IsDigit(s[i])} : p \in P}
Lit(s, P, w) == {p + Len(w) : p \in {q \in P : StartsWithAt(s, q, w)}}
LitAny(s, P, W) == UNION {Lit(s, P, w) : w \in W}
Opt(P, Q) == P \cup Q
CharIn(s, P, C) == {p + 1 : p \in {q \in P : q <= Len(s) /\ s[q] \in C}}
AtEnd(s, P) == (Len(s) + 1) \in P

\* ── Word literals the patterns use.
W_the == <<"t", "h", "e">>
W_a == <<"a">>
W_an == <<"a", "n">>
W_complete == <<"c", "o", "m", "p", "l", "e", "t", "e">>
W_season == <<"s", "e", "a", "s", "o", "n">>
W_series == <<"s", "e", "r", "i", "e", "s">>
W_s == <<"s">>
Ordinals == {<<"f", "i", "r", "s", "t">>, <<"s", "e", "c", "o", "n", "d">>, <<"t", "h", "i", "r", "d">>, <<"f", "o", "u", "r", "t", "h">>, <<"f", "i", "f", "t", "h">>, <<"s", "i", "x", "t", "h">>, <<"s", "e", "v", "e", "n", "t", "h">>, <<"e", "i", "g", "h", "t", "h">>, <<"n", "i", "n", "t", "h">>, <<"t", "e", "n", "t", "h">>}
OrdinalSuffixes == {<<"s", "t">>, <<"n", "d">>, <<"r", "d">>, <<"t", "h">>}
SepChars == {"-", ":"}

\* ───────────────────────── Title normalizer (lib/metadata) ─────────────────────────
\* A row of dp is the sequence dp[i][0..n], kept at positions 1..n+1.  The inner
\* loop extends the row of i by dp[i][j] for j = Len(row).
RECURSIVE levenshteinRow(_, _, _, _)
levenshteinRow(prev, ai, b, row) ==
  IF Len(row) > Len(b) THEN row
  ELSE levenshteinRow(prev, ai, b,
         Append(row, IF ai = b[Len(row)] THEN prev[Len(row)]
                     ELSE 1 + Min3(prev[Len(row) + 1], row[Len(row)], prev[Len(row)])))

RECURSIVE levenshteinFrom(_, _, _, _)
levenshteinFrom(a, b, i, prev) ==
  IF i > Len(a) THEN prev[Len(b) + 1]
  ELSE levenshteinFrom(a, b, i + 1, levenshteinRow(prev, a[i], b, <<i>>))

levenshtein(a, b) == levenshteinFrom(a, b, 1, [j \in 1..(Len(b) + 1) |-> j - 1])

normalizedSimilarity(a, b) ==
  IF Len(a) = 0 /\ Len(b) = 0 THEN FOne
  ELSE LET maxLen == Max2(Len(a), Len(b))
       IN Frac(maxLen - levenshtein(a, b), maxLen)

\* s.replace(/^(the|a|an)\s+/i, '').trim()
ReplaceHead(s, ends) ==
  IF ends = {} THEN s ELSE SubSeq(s, SetMax(ends), Len(s))

stripArticle(s) == trim(ReplaceHead(s, WsPlus(s, LitAny(s, {1}, {W_the, W_a, W_an}))))

\* s.replace(/R$/, ''): the leftmost start from which R matches up to the end.
ReplaceTail(s, starts) ==
  IF starts = {} THEN s ELSE SubSeq(s, 1, SetMin(starts) - 1)

OrdinalOrDigits(s, P) == LitAny(s, P, Ordinals) \cup DigitsPlus(s, P)
OptThe(s, P) == Opt(P, WsPlus(s, Lit(s, P, W_the)))
OptComplete(s, P) == Opt(P, WsPlus(s, Lit(s, P, W_complete)))
Separator(s, P) == WsStar(s, CharIn(s, WsStar(s, P), SepChars))

\* /\s*\((?:season|series|s)\s*\d+\)\s*$/i
MatchParenSeason(s, k) ==
  AtEnd(s, WsStar(s, CharIn(s, DigitsPlus(s, WsStar(s,
    LitAny(s, CharIn(s, WsStar(s, {k}), {"("}), {W_season, W_series, W_s}))), {")"})))

\* /\s*[-:]\s*(?:the\s+)?(?:complete\s+)?(?:season|series)\s+(?:\d+|first|...|tenth)\s*$/i
MatchSepSeason(s, k) ==
  AtEnd(s, WsStar(s, OrdinalOrDigits(s, WsPlus(s,
    LitAny(s, OptComplete(s, OptThe(s, Separator(s, {k}))), {W_season, W_series})))))

\* /\s+(?:the\s+)?(?:complete\s+)?(?:season|series)\s+(?:\d+|first|...|tenth)\s*$/i
MatchBareSeason(s, k) ==
  AtEnd(s, WsStar(s, OrdinalOrDigits(s, WsPlus(s,
    LitAny(s, OptComplete(s, OptThe(s, WsPlus(s, {k}))), {W_season, W_series})))))

\* /\s*[-:]\s*s\d+\s*$/i
MatchSepSxx(s, k) ==
  AtEnd(s, WsStar(s, DigitsPlus(s, Lit(s, Separator(s, {k}), W_s))))

\* /\s*[-:]\s*(?:the\s+)?complete\s+series\s*$/i
MatchCompleteSeries(s, k) ==
  AtEnd(s, WsStar(s, Lit(s, WsPlus(s, Lit(s, OptThe(s, Separator(s, {k})), W_complete)), W_series)))

\* /\s*[-:]\s*(?:the\s+)?complete\s+(?:first|...|tenth|\d+(?:st|nd|rd|th)?)\s+season\s*$/i
OrdinalOrNth(s, P) ==
  LitAny(s, P, Ordinals) \cup DigitsPlus(s, P) \cup LitAny(s, DigitsPlus(s, P), OrdinalSuffixes)

MatchCompleteNthSeason(s, k) ==
  AtEnd(s, WsStar(s, Lit(s, WsPlus(s, OrdinalOrNth(s,
    WsPlus(s, Lit(s, OptThe(s, Separator(s, {k})), W_complete)))), W_season)))

\* /\s*\(\d{4}\)\s*$/
MatchParenYear(s, k) ==
  LET open == CharIn(s, WsStar(s, {k}), {"("})
      four == {p + 4 : p \in {q \in open : q + 3 <= Len(s) /\ \A i \in q..(q + 3) : IsDigit(s[i])}}
  IN AtEnd(s, WsStar(s, CharIn(s, four, {")"})))

\* Whether the pattern named pat matches s from position k up to the end.
MatchTail(pat, s, k) ==
  CASE pat = "parenSeason" -> MatchParenSeason(s, k)
    [] pat = "sepSeason" -> MatchSepSeason(s, k)
    [] pat = "bareSeason" -> MatchBareSeason(s, k)
    [] pat = "sepSxx" -> MatchSepSxx(s, k)
    [] pat = "completeSeries" -> MatchCompleteSeries(s, k)
    [] pat = "completeNthSeason" -> MatchCompleteNthSeason(s, k)
    [] pat = "parenYear" -> MatchParenYear(s, k)

\* One s.replace(pattern$, '') of a chain of replacements.
StripTail(s, pat) == ReplaceTail(s, {k \in 1..Len(s) : MatchTail(pat, s, k)})

stripSeasonSuffix(s) ==
  trim(StripTail(StripTail(StripTail(StripTail(StripTail(StripTail(s,
    "parenSeason"), "sepSeason"), "bareSeason"), "sepSxx"),
    "completeSeries"), "completeNthSeason"))

extractSeriesName(title) == trim(StripTail(stripSeasonSuffix(title), "parenYear"))

\* Math.max(rawScore, strippedScore)
bestSimilarity(t1, t1Stripped, t2) ==
  FracMax(normalizedSimilarity(t1, t2), normalizedSimilarity(t1Stripped, t2))

computeTitleScore(queryTitle, resultTitle) ==
  bestSimilarity(stripArticle(toLowerCase(queryTitle)),
                 stripArticle(toLowerCase(stripSeasonSuffix(queryTitle))),
                 stripArticle(toLowerCase(resultTitle)))

ScoreHigh == Frac(85, 100)
ScoreLow == Frac(50, 100)
YearBonus == Frac(1, 10)

scoreToConfidenceAbove(score) ==
  IF FracGT(score, ScoreHigh) THEN "high"
  ELSE IF FracGT(score, ScoreLow) THEN "low"
  ELSE "unmatched"

scoreToConfidence(score) ==
  IF FracGE(score, ScoreHigh) THEN "high"
  ELSE IF FracGE(score, ScoreLow) THEN "low"
  ELSE "unmatched"


\* ───────────────────────── Primary catalog matching (lib/metadata) ─────────────────────────
SearchWindow == 5

TakeFirst(seq, n) == SubSeq(seq, 1, Min2(Len(seq), n))

\* Every field keeps one type: texts are character sequences, tokens are
\* strings with Null for null, years are integers with NoYear for an absent
\* (undefined or null) year.
NoYear == -1
NoId == -1
NaN == -1
NoTitle == <<"undefined">>
\* JavaScript truthiness of an optional number: undefined, null and 0 are falsy.
Truthy(y) == y # NoYear /\ y # 0
\* a || b on nullable strings
OrElse(a, b) == IF a = Null \/ a = "" THEN b ELSE a

buildUnmatched(item) ==
  [title |-> item.title, creator |-> item.creator, type |-> item.type,
   confidence |-> "unmatched", source |-> "none",
   tmdbId |-> NoId, imdbId |-> Null, tvdbId |-> NoId, posterUrl |-> Null,
   overview |-> Null, rating |-> Null, releaseDate |-> Null, genres |-> Null,
   year |-> item.year,
   director |-> Null, runtime |-> Null, network |-> Null, seasons |-> Null,
   showStatus |-> Null, plexMatch |-> FALSE, plexRatingKey |-> Null]

\* A search response carries ok = FALSE for a non-2xx response or a transport
\* failure; both searches fail soft to [].
searchTMDBMovies(response) == IF ~response.ok THEN <<>> ELSE TakeFirst(response.results, SearchWindow)
searchTMDBTV(response) == IF ~response.ok THEN <<>> ELSE TakeFirst(response.results, SearchWindow)

\* A candidate without a name makes computeTitleScore throw (toLowerCase of undefined).
ScoringThrows(results) == \E i \in 1..Len(results) : results[i].title = NoTitle

\* Math.min(score + yearBonus, 1)
totalScore(item, result) ==
  LET score == computeTitleScore(item.title, result.title)
      resultYear == result.year
      yearBonus == IF Truthy(item.year) /\ resultYear = item.year THEN YearBonus ELSE FZero
  IN FracMin(FracAdd(score, yearBonus), FOne)

\* if (totalScore > bestScore)
Exceeds(total, bestScore) == FracGT(total, bestScore)

RECURSIVE bestOf(_, _, _, _)
bestOf(scores, i, bestIdx, bestScore) ==
  IF i > Len(scores) THEN [idx |-> bestIdx, score |-> bestScore]
  ELSE IF Exceeds(scores[i], bestScore) THEN bestOf(scores, i + 1, i, scores[i])
  ELSE bestOf(scores, i + 1, bestIdx, bestScore)

\* The totalScore of every result, in the order of the results.
RECURSIVE totalScores(_, _)
totalScores(item, results) ==
  IF results = <<>> THEN <<>>
  ELSE <<totalScore(item, Head(results))>> \o totalScores(item, Tail(results))

\* let bestResult = null; let bestScore = 0; for (const result of results) ...
scoreResults(item, results) == bestOf(totalScores(item, results), 1, 0, FZero)

Outcome(item, reqs) == [threw |-> FALSE, item |-> item, reqs |-> reqs]
Thrown(reqs) == [threw |-> TRUE, reqs |-> reqs]

\* a?.b on a details response that is null after a failed request
Detail(details, value) == IF ~details.ok THEN Null ELSE value

\* parseInt(date.slice(0, 4)) || undefined
YearOrNone(year) == IF year = 0 THEN NoYear ELSE year

MovieSearch(item) == <<[op |-> "searchMovie", title |-> item.title, year |-> item.year]>>

movieMatch(item, bestResult, confidence, details) ==
  [title |-> item.title,
   creator |-> OrElse(Detail(details, details.director), item.creator), type |-> "movie",
   confidence |-> confidence, source |-> "tmdb",
   tmdbId |-> bestResult.id, imdbId |-> Detail(details, details.imdb_id), tvdbId |-> NoId,
   posterUrl |-> bestResult.poster, overview |-> bestResult.overview,
   rating |-> bestResult.rating, releaseDate |-> bestResult.date,
   genres |-> bestResult.genres, year |-> YearOrNone(bestResult.year),
   director |-> Detail(details, details.director),
   runtime |-> Detail(details, details.runtime),
   network |-> Null, seasons |-> Null, showStatus |-> Null,
   plexMatch |-> FALSE, plexRatingKey |-> Null]

\* enrichMovie after the scoring loop
movieFromBest(item, w, results, best) ==
  IF best.idx = 0 THEN Outcome(buildUnmatched(item), MovieSearch(item))
  ELSE IF scoreToConfidence(best.score) = "unmatched"
       THEN Outcome(buildUnmatched(item), MovieSearch(item))
  ELSE Outcome(movieMatch(item, results[best.idx], scoreToConfidence(best.score), w.movieDetails),
               MovieSearch(item) \o <<[op |-> "movieDetails", id |-> results[best.idx].id]>>)

\* enrichMovie after the search
movieFromResults(item, w, results) ==
  IF Len(results) = 0 THEN Outcome(buildUnmatched(item), MovieSearch(item))
  ELSE IF ScoringThrows(results) THEN Thrown(MovieSearch(item))
  ELSE movieFromBest(item, w, results, scoreResults(item, results))

enrichMovie(item, w) == movieFromResults(item, w, searchTMDBMovies(w.movie))

\* const searchTitle = seriesName !== item.title ? seriesName : item.title
searchTitleOf(title, seriesName) == IF seriesName # title THEN seriesName ELSE title

TVSearch(title, year) == [op |-> "searchTV", title |-> title, year |-> year]

\* The three searches of enrichTV: the results it goes on with and the requests made.
tvAfterOriginal(item, w, searchTitle, results, reqs) ==
  IF Len(results) = 0 /\ Truthy(item.year) /\ item.year > 0
  THEN [results |-> searchTMDBTV(w.tv[3]), reqs |-> Append(reqs, TVSearch(searchTitle, NoYear))]
  ELSE [results |-> results, reqs |-> reqs]

tvAfterCleanedUnconditional(item, w, searchTitle, results) ==
  IF searchTitle # item.title
  THEN tvAfterOriginal(item, w, searchTitle, searchTMDBTV(w.tv[2]),
                       <<TVSearch(searchTitle, item.year), TVSearch(item.title, item.year)>>)
  ELSE tvAfterOriginal(item, w, searchTitle, results, <<TVSearch(searchTitle, item.year)>>)

tvAfterCleaned(item, w, searchTitle, results) ==
  IF Len(results) = 0 /\ searchTitle # item.title
  THEN tvAfterOriginal(item, w, searchTitle, searchTMDBTV(w.tv[2]),
                       <<TVSearch(searchTitle, item.year), TVSearch(item.title, item.year)>>)
  ELSE tvAfterOriginal(item, w, searchTitle, results, <<TVSearch(searchTitle, item.year)>>)

tvSearches(item, w, searchTitle) == tvAfterCleaned(item, w, searchTitle, searchTMDBTV(w.tv[1]))

tvMatch(item, bestResult, confidence, details) ==
  [title |-> item.title,
   creator |-> OrElse(Detail(details, details.created_by), item.creator), type |-> "tv",
   confidence |-> confidence, source |-> "tmdb",
   tmdbId |-> bestResult.id, imdbId |-> Detail(details, details.imdb_id), tvdbId |-> NoId,
   posterUrl |-> bestResult.poster, overview |-> bestResult.overview,
   rating |-> bestResult.rating, releaseDate |-> bestResult.date,
   genres |-> bestResult.genres, year |-> YearOrNone(bestResult.year),
   director |-> Null, runtime |-> Null,
   network |-> Detail(details, details.network),
   seasons |-> Detail(details, details.seasons),
   showStatus |-> Detail(details, details.status),
   plexMatch |-> FALSE, plexRatingKey |-> Null]

\* enrichTV after the scoring loop
tvFromBest(item, w, search, best) ==
  IF best.idx = 0 THEN Outcome(buildUnmatched(item), search.reqs)
  ELSE IF scoreToConfidence(best.score) = "unmatched"
       THEN Outcome(buildUnmatched(item), search.reqs)
  ELSE Outcome(tvMatch(item, search.results[best.idx], scoreToConfidence(best.score), w.tvDetails),
               Append(search.reqs, [op |-> "tvDetails", id |-> search.results[best.idx].id]))

\* enrichTV after the searches
tvFromSearch(item, w, search) ==
  IF Len(search.results) = 0 THEN Outcome(buildUnmatched(item), search.reqs)
  ELSE IF ScoringThrows(search.results) THEN Thrown(search.reqs)
  ELSE tvFromBest(item, w, search, scoreResults(item, search.results))

enrichTV(item, w) ==
  tvFromSearch(item, w, tvSearches(item, w, searchTitleOf(item.title, extractSeriesName(item.title))))

enrichSingleItemTvFirst(item, w) ==
  IF item.type = "movie" THEN enrichMovie(item, w)
  ELSE IF item.type \in {"tv", "dvd"} THEN enrichTV(item, w)
  ELSE Outcome(buildUnmatched(item), <<>>)

\* case 'dvd', after the movie attempt came back unmatched
dvdFromTV(item, movieResult, tvResult) ==
  IF tvResult.threw THEN Thrown(movieResult.reqs \o tvResult.reqs)
  ELSE IF tvResult.item.confidence # "unmatched"
       THEN Outcome(tvResult.item, movieResult.reqs \o tvResult.reqs)
  ELSE Outcome(buildUnmatched(item), movieResult.reqs \o tvResult.reqs)

\* case 'dvd': movie first, then TV
dvdFromMovie(item, w, movieResult) ==
  IF movieResult.threw THEN movieResult
  ELSE IF movieResult.item.confidence # "unmatched" THEN movieResult
  ELSE dvdFromTV(item, movieResult, enrichTV(item, w))

\* switch (item.type)
enrichSingleItem(item, w) ==
  CASE item.type = "movie" -> enrichMovie(item, w)
    [] item.type = "tv" -> enrichTV(item, w)
    [] item.type = "dvd" -> dvdFromMovie(item, w, enrichMovie(item, w))
    [] OTHER -> Outcome(buildUnmatched(item), <<>>)


\* ───────────────────────── Supplemental catalog (lib/tvdb) ─────────────────────────
DigitVal(c) ==
  CASE c = "0" -> 0 [] c = "1" -> 1 [] c = "2" -> 2 [] c = "3" -> 3 [] c = "4" -> 4
    [] c = "5" -> 5 [] c = "6" -> 6 [] c = "7" -> 7 [] c = "8" -> 8 [] c = "9" -> 9

RECURSIVE digitsValue(_, _, _)
digitsValue(s, i, acc) ==
  IF i > Len(s) \/ ~IsDigit(s[i]) THEN acc
  ELSE digitsValue(s, i + 1, 10 * acc + DigitVal(s[i]))

\* parseInt(s, 10): the value of the leading digits, NaN when there is none.
parseInt(s) == IF Len(s) = 0 \/ ~IsDigit(s[1]) THEN NaN ELSE digitsValue(s, 1, 0)

\* value.slice(value.lastIndexOf('-') + 1), the whole value when it has no dash
SliceAfter(s, dashes) == IF dashes = {} THEN s ELSE SubSeq(s, SetMax(dashes) + 1, Len(s))

AfterLastDash(s) == SliceAfter(s, {i \in 1..Len(s) : s[i] = "-"})

\* if (value) { const id = parseInt(...); if (id > 0) return id }
PositiveId(value, parsed) == value # <<>> /\ parsed > 0

extractTVDBId(result) ==
  IF PositiveId(result.tvdb_id, parseInt(result.tvdb_id)) THEN parseInt(result.tvdb_id)
  ELSE IF PositiveId(result.id, parseInt(AfterLastDash(result.id)))
       THEN parseInt(AfterLastDash(result.id))
  ELSE IF PositiveId(result.objectID, parseInt(AfterLastDash(result.objectID)))
       THEN parseInt(AfterLastDash(result.objectID))
  ELSE NoId

\* result.name ?? ''
NameOrEmpty(result) == IF result.name = NoTitle THEN <<>> ELSE result.name

\* let score = normalizedSimilarity(q, r); if (qStripped !== q) score = Math.max(...)
tvdbTitleScore(q, qStripped, r) ==
  IF qStripped # q
  THEN FracMax(normalizedSimilarity(q, r), normalizedSimilarity(qStripped, r))
  ELSE normalizedSimilarity(q, r)

\* if (queryYear && result.year) { if (resultYear === queryYear) score = Math.min(score + 0.1, 1) }
tvdbYearBonus(score, queryYear, result) ==
  IF Truthy(queryYear) /\ result.year # <<>> /\ parseInt(result.year) = queryYear
  THEN FracMin(FracAdd(score, YearBonus), FOne)
  ELSE score

scoreTVDBResult(queryTitle, queryYear, result) ==
  tvdbYearBonus(
    tvdbTitleScore(stripArticle(trim(toLowerCase(queryTitle))),
                   stripArticle(trim(toLowerCase(extractSeriesName(queryTitle)))),
                   stripArticle(trim(toLowerCase(NameOrEmpty(result))))),
    queryYear, result)

\* The score of every result, in the order of the results.
RECURSIVE tvdbScores(_, _, _)
tvdbScores(title, year, results) ==
  IF results = <<>> THEN <<>>
  ELSE <<scoreTVDBResult(title, year, Head(results))>> \o tvdbScores(title, year, Tail(results))

\* if (bestScore < 0.5) return null
acceptBest(best) == IF FracLT(best.score, ScoreLow) THEN 0 ELSE best.idx

\* The index of the accepted result, 0 for null.
pickBestResult(title, year, results) ==
  IF Len(results) = 0 THEN 0
  ELSE acceptBest(bestOf(tvdbScores(title, year, results), 1, 0, FZero))

\* data.data ?? [], [] as well after a failed request
tvdbResults(response) == IF ~response.ok THEN <<>> ELSE response.results

tvdbPicked(results, best) ==
  IF best = 0 THEN [idx |-> 0, tvdbId |-> NoId]
  ELSE [idx |-> best, tvdbId |-> extractTVDBId(results[best])]

\* searchTVDBSeries and searchTVDBMovie with the scored selection.
searchTVDBScored(title, year, response) ==
  tvdbPicked(tvdbResults(response), pickBestResult(title, year, tvdbResults(response)))

\* results.find(r => r.name?.toLowerCase().trim() === normalizedTitle) || results[0]
exactOrFirst(results, normalizedTitle) ==
  IF \E i \in 1..Len(results) :
       results[i].name # NoTitle /\ trim(toLowerCase(results[i].name)) = normalizedTitle
  THEN SetMin({i \in 1..Len(results) :
                 results[i].name # NoTitle /\ trim(toLowerCase(results[i].name)) = normalizedTitle})
  ELSE 1

\* const id = parseInt(match.tvdb_id, 10); return id > 0 ? id : null
tvdbFirstPicked(results, idx) ==
  [idx |-> idx, tvdbId |-> IF parseInt(results[idx].tvdb_id) > 0
                            THEN parseInt(results[idx].tvdb_id) ELSE NoId]

\* searchTVDBSeries and searchTVDBMovie of lib/tvdb.ts: the exact name match,
\* else the first result.
searchTVDBSeries(title, year, response) ==
  IF Len(tvdbResults(response)) = 0 THEN [idx |-> 0, tvdbId |-> NoId]
  ELSE tvdbFirstPicked(tvdbResults(response),
                       exactOrFirst(tvdbResults(response), trim(toLowerCase(title))))

\* ───────────────────────── Supplemental id resolution (resolveTVDBId) ─────────────────────────
\* lib names the file whose code runs: "scored" for the one with the scored
\* selection, "legacy" for lib/tvdb.ts.  The supplemental catalog answers a
\* resolution with w: remoteSearch to /search?remote_id=, remotePath to
\* /search/remoteid/{id}, series to the series searches in the order issued,
\* movie to the movie search.  A remote answer is ok, fail (non-2xx) or throw.
\* A record of the path endpoint carries series and movie ids, NoId for an
\* absent record and 0 for a record whose id is not a positive number.

\* Strategy 1: the first result that has an id and is a series or a movie,
\* else the first result when it has an id.
typedHits(results) ==
  {i \in 1..Len(results) :
     extractTVDBId(results[i].r) # NoId /\ results[i].type \in {"series", "movie"}}

remoteSearchId(results) ==
  IF Len(results) = 0 THEN NoId
  ELSE IF typedHits(results) # {} THEN extractTVDBId(results[SetMin(typedHits(results))].r)
  ELSE extractTVDBId(results[1].r)

\* Strategy 2 with the validity checks: per record the series id when it is
\* positive, else the movie id when it is positive.
recordId(rec) ==
  IF rec.series > 0 THEN rec.series ELSE IF rec.movie > 0 THEN rec.movie ELSE NoId

pathHits(results) == {i \in 1..Len(results) : recordId(results[i]) # NoId}

remotePathId(results) ==
  IF pathHits(results) = {} THEN NoId ELSE recordId(results[SetMin(pathHits(results))])

\* lib/tvdb.ts: the first record that has a series or a movie, its id taken as it is.
legacyHits(results) ==
  {i \in 1..Len(results) : results[i].series # NoId \/ results[i].movie # NoId}

legacyRecordId(rec) == IF rec.series # NoId THEN rec.series ELSE rec.movie

Direct(found, id, reqs) == [found |-> found, id |-> id, reqs |-> reqs]

remotePathLookup(lib, answer, reqs) ==
  IF answer.state # "ok" THEN Direct(FALSE, NoId, reqs)
  ELSE IF lib = "scored"
  THEN Direct(remotePathId(answer.results) # NoId, remotePathId(answer.results), reqs)
  ELSE IF legacyHits(answer.results) = {} THEN Direct(FALSE, NoId, reqs)
  ELSE Direct(TRUE, legacyRecordId(answer.results[SetMin(legacyHits(answer.results))]), reqs)

findTVDBByImdbId(lib, w) ==
  IF lib = "legacy" THEN remotePathLookup(lib, w.remotePath, <<"remotePath">>)
  ELSE IF w.remoteSearch.state = "throw" THEN Direct(FALSE, NoId, <<"remoteSearch">>)
  ELSE IF w.remoteSearch.state = "ok" /\ remoteSearchId(w.remoteSearch.results) # NoId
  THEN Direct(TRUE, remoteSearchId(w.remoteSearch.results), <<"remoteSearch">>)
  ELSE remotePathLookup(lib, w.remotePath, <<"remoteSearch", "remotePath">>)

\* searchTVDBSeries and searchTVDBMovie of either file
titleSearch(lib, title, year, response) ==
  IF lib = "scored" THEN searchTVDBScored(title, year, response).tvdbId
  ELSE searchTVDBSeries(title, year, response).tvdbId

Found(tvdbId, reqs) == [tvdbId |-> tvdbId, reqs |-> reqs]

\* if (!tvdbId && searchTitle !== title) tvdbId = await searchTVDBSeries(title, year)
seriesRetry(lib, title, year, w, searchTitle, first) ==
  IF lib = "scored" /\ first = NoId /\ searchTitle # title
  THEN Found(titleSearch(lib, title, year, w.series[2]), <<"searchSeries", "searchSeries">>)
  ELSE Found(first, <<"searchSeries">>)

seriesSearch(lib, title, year, w, searchTitle) ==
  seriesRetry(lib, title, year, w, searchTitle, titleSearch(lib, searchTitle, year, w.series[1]))

\* For 'dvd' or other types, try movie then series
movieThenSeries(lib, title, year, w, movieId) ==
  IF movieId # NoId THEN Found(movieId, <<"searchMovie">>)
  ELSE Found(titleSearch(lib, title, year, w.series[1]), <<"searchMovie", "searchSeries">>)

\* Strategy 2 of resolveTVDBId
searchByTitle(lib, title, year, type, w) ==
  CASE type = "tv" ->
         seriesSearch(lib, title, year, w,
                      IF lib = "scored" THEN extractSeriesName(title) ELSE title)
    [] type = "movie" -> Found(titleSearch(lib, title, year, w.movie), <<"searchMovie">>)
    [] OTHER -> movieThenSeries(lib, title, year, w, titleSearch(lib, title, year, w.movie))

afterTitle(direct, found) == Found(found.tvdbId, direct.reqs \o found.reqs)

afterDirectSearchWins(lib, direct, title, year, type, w) ==
  IF searchByTitle(lib, title, year, type, w).tvdbId # NoId \/ ~direct.found
  THEN afterTitle(direct, searchByTitle(lib, title, year, type, w))
  ELSE Found(direct.id, direct.reqs)

\* if (result) return result.tvdbId; otherwise the title search
afterDirect(lib, direct, title, year, type, w) ==
  IF direct.found THEN Found(direct.id, direct.reqs)
  ELSE afterTitle(direct, searchByTitle(lib, title, year, type, w))

\* if (imdbId) { const result = await findTVDBByImdbId(imdbId); ... }
resolveTVDBId(lib, title, year, imdbId, type, w) ==
  afterDirect(lib,
              IF imdbId \in {Null, ""} THEN Direct(FALSE, NoId, <<>>)
              ELSE findTVDBByImdbId(lib, w),
              title, year, type, w)

\* ───────────────────────── Personal library (lib/plex) ─────────────────────────
RECURSIVE collapseFrom(_, _, _)
collapseFrom(s, i, acc) ==
  IF i > Len(s) THEN acc
  ELSE IF IsWS(s[i]) /\ i > 1 /\ IsWS(s[i - 1]) THEN collapseFrom(s, i + 1, acc)
  ELSE collapseFrom(s, i + 1, Append(acc, s[i]))

KeepAlnumOrWs(c) == IsLowerAlnum(c) \/ IsWS(c)

normalizeTitle(title) ==
  trim(collapseFrom(SelectSeq(toLowerCase(title), KeepAlnumOrWs), 1, <<>>))

\* a.includes(b)
Includes(a, b) == \E k \in 0..(Len(a) - Len(b)) : SubSeq(a, k + 1, k + Len(b)) = b

Abs(x) == IF x < 0 THEN -x ELSE x

\* normalizedQuery === normalizedPlex || one includes the other
TitlesOverlap(normalizedQuery, normalizedPlex) ==
  \/ normalizedQuery = normalizedPlex
  \/ Includes(normalizedQuery, normalizedPlex)
  \/ Includes(normalizedPlex, normalizedQuery)

PlexCandidate(normalizedQuery, year, plexItem) ==
  /\ TitlesOverlap(normalizedQuery, normalizeTitle(plexItem.title))
  /\ ~(Truthy(year) /\ Truthy(plexItem.year) /\ Abs(year - plexItem.year) > 1)

PlexHits(normalizedQuery, year, plexItems) ==
  {i \in 1..Len(plexItems) : PlexCandidate(normalizedQuery, year, plexItems[i])}

plexPickedLast(plexItems, hits) ==
  IF hits = {}
  THEN [matched |-> FALSE, plexRatingKey |-> Null, imdbId |-> Null, tvdbId |-> <<>>]
  ELSE [matched |-> TRUE, plexRatingKey |-> plexItems[SetMax(hits)].ratingKey,
        imdbId |-> plexItems[SetMax(hits)].guids.imdbId,
        tvdbId |-> plexItems[SetMax(hits)].guids.tvdbId]

\* The first library item that qualifies.
plexPicked(plexItems, hits) ==
  IF hits = {}
  THEN [matched |-> FALSE, plexRatingKey |-> Null, imdbId |-> Null, tvdbId |-> <<>>]
  ELSE [matched |-> TRUE, plexRatingKey |-> plexItems[SetMin(hits)].ratingKey,
        imdbId |-> plexItems[SetMin(hits)].guids.imdbId,
        tvdbId |-> plexItems[SetMin(hits)].guids.tvdbId]

matchWithPlex(title, year, plexItems) ==
  plexPicked(plexItems, PlexHits(normalizeTitle(title), year, plexItems))

mergePlexMatchOverwriting(item, plexMatch) ==
  IF ~plexMatch.matched THEN item
  ELSE [item EXCEPT !.plexMatch = TRUE, !.plexRatingKey = plexMatch.plexRatingKey,
                    !.imdbId = plexMatch.imdbId, !.tvdbId = parseInt(plexMatch.tvdbId)]

\* if (match.matched) { item.plexMatch = true; ... fill imdbId and tvdbId when absent }
mergePlexMatch(item, plexMatch) ==
  IF ~plexMatch.matched THEN item
  ELSE [item EXCEPT
          !.plexMatch = TRUE,
          !.plexRatingKey = plexMatch.plexRatingKey,
          !.imdbId = IF item.imdbId \in {Null, ""} /\ plexMatch.imdbId \notin {Null, ""}
                     THEN plexMatch.imdbId ELSE @,
          !.tvdbId = IF (item.tvdbId = NoId \/ item.tvdbId = 0) /\ plexMatch.tvdbId # <<>>
                     THEN (IF parseInt(plexMatch.tvdbId) > 0 THEN parseInt(plexMatch.tvdbId)
                           ELSE NoId)
                     ELSE @]

\* The merge of one library match into one enriched item
\* (enrichAndSaveItems and the item route apply the same statements).
crossReference(item, plexItems) ==
  mergePlexMatch(item, matchWithPlex(item.title, item.year, plexItems))


\* ───────────────────────── Inputs of the matching layer ─────────────────────────
T_Star == <<"S", "t", "a", "r">>
T_TheStar == <<"T", "h", "e", " ", "S", "t", "a", "r">>
T_StarS1 == <<"S", "t", "a", "r", " ", "-", " ", "S", "1">>
T_Stat == <<"S", "t", "a", "t">>
T_Stxx == <<"S", "t", "x", "x">>
T_Xxxx == <<"X", "x", "x", "x">>
D_1999 == <<"1", "9", "9", "9">>
D_71 == <<"7", "1">>
D_series72 == <<"s", "e", "r", "i", "e", "s", "-", "7", "2">>
D_movie0 == <<"m", "o", "v", "i", "e", "-", "0">>

Kinds == {"movie", "tv", "dvd", "vinyl", "game", "other"}

Cand(id, title, year) ==
  [id |-> id, title |-> title, year |-> year,
   date |-> IF year = 0 THEN "" ELSE "dated", poster |-> "poster",
   overview |-> "overview", rating |-> "7.5", genres |-> "Drama"]

CandPool ==
  {Cand(1, T_Star, 1999), Cand(2, T_Star, 0), Cand(3, T_Stat, 1999), Cand(4, T_Stat, 0),
   Cand(5, T_Stxx, 0), Cand(7, T_Xxxx, 1999), Cand(8, NoTitle, 0)}

\* Result lists without repetition, up to n entries.
ListsUpTo(S, n) ==
  UNION {{l \in [1..k -> S] : \A i, j \in 1..k : i # j => l[i] # l[j]} : k \in 0..n}

Ok(results) == [ok |-> TRUE, results |-> results]
Failed == [ok |-> FALSE, results |-> <<>>]
CandResponses == {Ok(l) : l \in ListsUpTo(CandPool, MaxCand)} \cup {Failed}
SmallResponses == {Ok(<<>>), Ok(<<Cand(1, T_Star, 1999)>>), Ok(<<Cand(5, T_Stxx, 0)>>)}

NoDetails == [ok |-> FALSE]
MovieDetailsFull == [ok |-> TRUE, imdb_id |-> "tt0001", runtime |-> "120", director |-> "Director"]
TVDetailsFull ==
  [ok |-> TRUE, imdb_id |-> "tt0002", network |-> "Network", seasons |-> "3",
   status |-> "Ended", created_by |-> "Showrunner"]

\* What the catalog answers to each request one item's resolution can issue:
\* the movie search, the three TV searches in the order of enrichTV, and the
\* two detail fetches.
World(movie, tv1, tv2, tv3, movieDetails, tvDetails) ==
  [movie |-> movie, tv |-> <<tv1, tv2, tv3>>, movieDetails |-> movieDetails, tvDetails |-> tvDetails]

Worlds ==
  {World(m, t, Ok(<<>>), Ok(<<>>), MovieDetailsFull, TVDetailsFull) :
     m \in CandResponses, t \in SmallResponses}
  \cup
  {World(m, t, Ok(<<>>), Ok(<<>>), MovieDetailsFull, TVDetailsFull) :
     m \in {Ok(<<>>), Failed}, t \in CandResponses}
  \cup
  {World(m, Ok(<<>>), t2, t3, md, td) :
     m \in {Ok(<<>>), Ok(<<Cand(1, T_Star, 1999)>>)}, t2 \in SmallResponses,
     t3 \in SmallResponses, md \in {NoDetails, MovieDetailsFull},
     td \in {NoDetails, TVDetailsFull}}

Item(title, creator, type, year) == [title |-> title, creator |-> creator, type |-> type, year |-> year]

CatalogKinds == {"movie", "tv", "dvd"}
ResolveItems ==
  {Item(t, "Unknown", k, y) : t \in {T_Star, T_TheStar, T_StarS1}, k \in CatalogKinds, y \in {NoYear, 1999}}
  \cup {Item(T_Star, "Unknown", k, 1999) : k \in Kinds \ CatalogKinds}
  \cup {Item(T_Star, "Unknown", "movie", 0)}

TvdbResult(tvdbId, id, objectID, name, year) ==
  [tvdb_id |-> tvdbId, id |-> id, objectID |-> objectID, name |-> name, year |-> year]

TvdbPool ==
  {TvdbResult(D_71, <<>>, <<>>, T_Star, D_1999),
   TvdbResult(<<>>, D_series72, <<>>, T_Stat, D_1999),
   TvdbResult(<<>>, D_movie0, D_series72, T_Stxx, <<>>),
   TvdbResult(D_71, <<>>, <<>>, T_Xxxx, <<>>),
   TvdbResult(D_71, <<>>, <<>>, NoTitle, <<>>)}

TvdbResponses == {Ok(l) : l \in ListsUpTo(TvdbPool, MaxCand)} \cup {Failed}

\* ───────────────────────── Vision response parsing (lib/scan-orchestrator) ─────────────────────────
\* A response text is described by what JSON.parse makes of the whole text
\* and of the contents of its first fenced block.  A parse is a syntax error,
\* absent (no fenced block), a falsy JSON value (null, 0, false, ""), or an
\* object, with or without an items array.
JSyntaxError == [kind |-> "syntaxError", hasItems |-> FALSE, items |-> <<>>]
JAbsent == [kind |-> "absent", hasItems |-> FALSE, items |-> <<>>]
JFalsy == [kind |-> "falsy", hasItems |-> FALSE, items |-> <<>>]
JObject == [kind |-> "object", hasItems |-> FALSE, items |-> <<>>]
JItems(items) == [kind |-> "object", hasItems |-> TRUE, items |-> items]

Content(empty, direct, fence) == [empty |-> empty, direct |-> direct, fence |-> fence]
NoContent == Content(TRUE, JSyntaxError, JAbsent)

tryParseJsonDirectOnly(content) ==
  IF content.direct.kind # "syntaxError" THEN content.direct ELSE JFalsy

tryParseJson(content) ==
  IF content.direct.kind # "syntaxError" THEN content.direct
  ELSE IF content.fence.kind \notin {"absent", "syntaxError"} THEN content.fence
  ELSE JFalsy

\* Raw item of a response: a missing key is Null (tokens) or NoTitle (texts);
\* year is a number, a text, or absent.
YNum(n) == [t |-> "number", n |-> n, s |-> <<>>]
YStr(s) == [t |-> "string", n |-> NoYear, s |-> s]
YNone == [t |-> "absent", n |-> NoYear, s |-> <<>>]

RawItem(title, creator, author, type, year) ==
  [title |-> title, creator |-> creator, author |-> author, type |-> type, year |-> year]

K_movie == <<"m", "o", "v", "i", "e">>
K_tv == <<"t", "v">>
K_dvd == <<"d", "v", "d">>
K_vinyl == <<"v", "i", "n", "y", "l">>
K_game == <<"g", "a", "m", "e">>
K_other == <<"o", "t", "h", "e", "r">>
K_book == <<"b", "o", "o", "k">>
K_TV == <<"T", "V">>
K_cd == <<"c", "d">>
D_na == <<"n", "/", "a">>

KindChars(k) ==
  CASE k = "movie" -> K_movie [] k = "tv" -> K_tv [] k = "dvd" -> K_dvd
    [] k = "vinyl" -> K_vinyl [] k = "game" -> K_game [] k = "other" -> K_other

coerceItem(i) ==
  LET lowered == toLowerCase(i.type)
      type == IF lowered = K_book THEN K_other ELSE lowered
      rename == i.author # Null /\ i.creator = Null
      parsed == parseInt(i.year.s)
  IN [title |-> i.title,
      creator |-> IF rename THEN i.author ELSE i.creator,
      author |-> IF rename THEN Null ELSE i.author,
      type |-> type,
      year |-> IF i.year.t = "string"
               THEN (IF parsed = NaN THEN YNone ELSE YNum(parsed))
               ELSE i.year]

coerceItemTypes(data) ==
  IF data.kind = "object" /\ data.hasItems
  THEN JItems([k \in 1..Len(data.items) |-> coerceItem(data.items[k])])
  ELSE data

\* LLMItemSchema
ValidItem(i) ==
  /\ i.title # NoTitle /\ Len(i.title) >= 1
  /\ i.creator # Null
  /\ \E k \in Kinds : KindChars(k) = i.type
  /\ i.year.t \in {"number", "absent"}

\* LLMResponseSchema.safeParse
SchemaValid(data) ==
  /\ data.kind = "object" /\ data.hasItems
  /\ \A k \in 1..Len(data.items) : ValidItem(data.items[k])

\* validated.data.items
ValidatedItems(data) ==
  [k \in 1..Len(data.items) |->
     Item(data.items[k].title, data.items[k].creator,
          CHOOSE kind \in Kinds : KindChars(kind) = data.items[k].type,
          data.items[k].year.n)]

\* One attempt's verdict on a response text: the identified items when the
\* text passes parsing, coercion and validation.
ParseAttempt(content) ==
  LET parsed == tryParseJson(content)
      coerced == coerceItemTypes(parsed)
  IN IF content.empty THEN [ok |-> FALSE, why |-> "empty", items |-> <<>>]
     ELSE IF parsed.kind = "falsy" THEN [ok |-> FALSE, why |-> "parse", items |-> <<>>]
     ELSE IF ~SchemaValid(coerced) THEN [ok |-> FALSE, why |-> "schema", items |-> <<>>]
     ELSE [ok |-> TRUE, why |-> "", items |-> ValidatedItems(coerced)]



\* ───────────────────────── Inputs of the scan pipeline ─────────────────────────
RI_movie == RawItem(T_Star, "Lucas", Null, K_movie, YNum(1999))
RI_quirky == RawItem(T_StarS1, Null, "Writer", K_TV, YStr(D_1999))
RI_book == RawItem(T_Stat, "", Null, K_book, YStr(D_na))
RI_untitled == RawItem(<<>>, "Nobody", Null, K_movie, YNone)
RI_cd == RawItem(T_Star, "Band", Null, K_cd, YNone)

ValidRawItems == <<RI_movie, RI_quirky, RI_book>>

\* The vision model's possible response texts.
Responses ==
  {NoContent,
   Content(FALSE, JSyntaxError, JAbsent),
   Content(FALSE, JSyntaxError, JSyntaxError),
   Content(FALSE, JFalsy, JAbsent),
   Content(FALSE, JObject, JAbsent),
   Content(FALSE, JItems(<<RI_untitled>>), JAbsent),
   Content(FALSE, JSyntaxError, JItems(<<RI_cd>>)),
   Content(FALSE, JItems(SubSeq(ValidRawItems, 1, MaxItems)), JAbsent),
   Content(FALSE, JSyntaxError, JItems(<<RI_book>>))}

\* What the primary catalog answers while a scan resolves one item.
CatalogWorld ==
  World(Ok(<<Cand(4, T_Stat, 0), Cand(1, T_Star, 1999)>>), Ok(<<Cand(3, T_Stat, 1999)>>),
        Ok(<<>>), Ok(<<>>), MovieDetailsFull, NoDetails)
EmptyWorld == World(Ok(<<>>), Failed, Ok(<<>>), Ok(<<>>), NoDetails, NoDetails)
BrokenWorld ==
  World(Ok(<<Cand(8, NoTitle, 0)>>), Ok(<<Cand(3, T_Stat, 1999)>>), Ok(<<>>), Ok(<<>>),
        NoDetails, TVDetailsFull)

\* The catalog lists the film without an IMDb id: imdb_id is the empty string.
MovieDetailsNoImdb == [ok |-> TRUE, imdb_id |-> "", runtime |-> "120", director |-> "Director"]
UnlistedWorld ==
  World(Ok(<<Cand(1, T_Star, 1999)>>), Ok(<<>>), Ok(<<>>), Ok(<<>>), MovieDetailsNoImdb, NoDetails)

\* What resolveTVDBId settles to for one matched item.
TvdbFulfilled(v) == [status |-> "fulfilled", value |-> v]
TvdbRejected == [status |-> "rejected", value |-> NoId]

PlexItem(title, year, ratingKey, imdbId, tvdbId) ==
  [title |-> title, year |-> year, ratingKey |-> ratingKey,
   guids |-> [imdbId |-> imdbId, tvdbId |-> tvdbId]]
\* fetchAllPlexItems: the library list, or a throw.
PlexDown == [ok |-> FALSE, items |-> <<>>]
PlexLibrary == [ok |-> TRUE, items |-> <<PlexItem(T_Xxxx, 1999, "rk1", Null, <<>>),
                                         PlexItem(T_Star, 2000, "rk2", "tt0009", D_71)>>]

SupportedModels == {"anthropic/claude-sonnet-4", "openai/gpt-4o", "google/gemini-2.0-flash-001"}
RequestedModels == {"openai/gpt-4o", "bogus/model"}

Env(openrouter, tmdb, tvdb, plex) ==
  [openrouter |-> openrouter, tmdb |-> tmdb, tvdb |-> tvdb, plex |-> plex]
Services(catalog, tvdb, plex) == [catalog |-> catalog, tvdb |-> tvdb, plex |-> plex]

\* The deployments explored: the configured credentials with the behaviour of
\* the external services during the behaviour.
Deployments ==
  {[env |-> Env(TRUE, TRUE, TRUE, TRUE),
    services |-> Services(CatalogWorld, TvdbFulfilled(7001), PlexLibrary)],
   [env |-> Env(TRUE, TRUE, TRUE, TRUE),
    services |-> Services(BrokenWorld, TvdbRejected, PlexDown)],
   [env |-> Env(TRUE, TRUE, TRUE, TRUE),
    services |-> Services(EmptyWorld, TvdbFulfilled(NoId), PlexLibrary)],
   [env |-> Env(TRUE, TRUE, TRUE, TRUE),
    services |-> Services(UnlistedWorld, TvdbFulfilled(NoId), PlexLibrary)],
   [env |-> Env(TRUE, TRUE, FALSE, FALSE),
    services |-> Services(CatalogWorld, TvdbRejected, PlexDown)],
   [env |-> Env(FALSE, TRUE, FALSE, FALSE),
    services |-> Services(EmptyWorld, TvdbRejected, PlexDown)],
   [env |-> Env(TRUE, FALSE, FALSE, FALSE),
    services |-> Services(EmptyWorld, TvdbRejected, PlexDown)]}

\* ───────────────────────── State ─────────────────────────
VARIABLES
  env,        \* process.env: which credentials are configured
  services,   \* what the external services answer
  images,     \* images table, in insertion order
  scans,      \* scans table, by scan id
  scanItems,  \* scan_items table, in insertion order
  usage,      \* usage_records table, in insertion order
  nextItemId, \* fresh scan_items ids
  runs,       \* the requests in flight: position, locals and event stream of each
  served,     \* the number of requests accepted so far
  memo,       \* module state of the adapters: token cache, genre cache, and the clock
  callers,    \* the calls of getToken and loadGenreCache in flight
  client,     \* the browser reading one response stream
  resolve     \* the matching layer's input and result (SpecResolve)

vars ==
  <<env, services, images, scans, scanItems, usage, nextItemId, runs, served, resolve, memo,
    callers, client>>
dbVars == <<images, scans, scanItems, usage, nextItemId>>
fixedVars == <<env, services, resolve, memo, callers, client>>

RunIds == DOMAIN runs
ScanIds == 1..MaxRequests

NoScan == [exists |-> FALSE, status |-> "", rawResponse |-> NoContent, hasRaw |-> FALSE,
           imageId |-> 0, modelId |-> ""]

\* The place of a scan row that was deleted: the row is gone and its id stays used.
DeletedScan == [NoScan EXCEPT !.status = "deleted"]

Pending == [state |-> "pending"]
Fulfilled(item) == [state |-> "fulfilled", value |-> item]
Rejected == [state |-> "rejected"]

NoEdit == [itemId |-> 0, item |-> Item(<<>>, "", "other", NoYear), rawCreator |-> ""]

IdleRun ==
  [kind |-> "none", pc |-> "idle", http |-> "", scan |-> 0, source |-> 0, hash |-> 0,
   model |-> "", attempt |-> 0, calls |-> 0, content |-> NoContent, writes |-> <<>>,
   items |-> <<>>, settled |-> <<>>, enriched |-> <<>>,
   events |-> <<>>, open |-> FALSE, edit |-> NoEdit]

Ev(event, arg) == [event |-> event, arg |-> arg]

SendUnguarded(run, ev) == [run EXCEPT !.events = Append(@, ev)]

\* writer.send: dropped once the controller is gone
Send(run, ev) == IF run.open THEN [run EXCEPT !.events = Append(@, ev)] ELSE run
\* writer.close
Close(run) == [run EXCEPT !.open = FALSE]
\* createSSEStream
WithStream(run) == [run EXCEPT !.open = TRUE, !.http = "stream"]

\* db.update(scans).set({ status }).where(eq(scans.id, scanId))
SetStatus(table, s, status) ==
  IF table[s].exists THEN [table EXCEPT ![s].status = status] ELSE table

\* updateScanStatus seen from the run: the write (kept as history) and the
\* status event
Announce(run, status) ==
  [Send(run, Ev("status", status)) EXCEPT !.writes = Append(@, status)]

\* The locals of a run are gone once it has returned or thrown.
Returned(run, pc) ==
  [run EXCEPT !.pc = pc, !.items = <<>>, !.settled = <<>>, !.enriched = <<>>,
              !.attempt = 0, !.content = NoContent, !.edit = NoEdit]

\* let cachedToken = null; let tokenExpiresAt = 0; const genreCache = new Map();
\* let genreCacheLoaded = false
NoToken == [by |-> 0, started |-> 0]
ColdMemo ==
  [clock |-> 0, cachedToken |-> NoToken, tokenExpiresAt |-> 0,
   genreCache |-> {}, genreCacheLoaded |-> FALSE]
IdleCaller == [pc |-> "idle", now |-> 0, movieOk |-> FALSE, tvOk |-> FALSE, last |-> "none"]
NoCallers == [c \in 1..MaxConcurrent |-> IdleCaller]

\* The browser before it has asked for anything.
IdleClient ==
  [pc |-> "idle", written |-> <<>>, rest |-> <<>>, buffer |-> <<>>,
   current |-> [event |-> <<>>, data |-> <<>>], split |-> FALSE, lineSplit |-> FALSE, handled |-> <<>>]

FreeRun == CHOOSE r \in RunIds : runs[r].kind = "none" /\ \A q \in RunIds : runs[q].kind = "none" => r <= q
HasFreeRun == served < MaxRequests /\ \E r \in RunIds : runs[r].kind = "none"
\* crypto.randomUUID(): an id no scan has had, a deleted one included.
FreeScan == CHOOSE s \in ScanIds : scans[s] = NoScan /\ \A q \in ScanIds : scans[q] = NoScan => s <= q

\* Image hashes are named by the order of their first upload: an upload
\* repeats a hash already seen or brings the next one.
SeenHashes == ({images[i].hash : i \in 1..Len(images)} \cup {runs[r].hash : r \in RunIds}) \ {0}
UploadHashes == SeenHashes \cup {Cardinality(SeenHashes) + 1}

ItemsOf(table, s) == SelectSeq(table, LAMBDA row : row.scanId = s)

\* ───────────────────────── Scan pipeline (lib/scan-orchestrator) ─────────────────────────
MaxAttempts == 2

\* db.insert(scanItems).values({...})
Row(id, s, item, raw) ==
  item @@ [id |-> id, scanId |-> s, rawTitle |-> raw.title, rawCreator |-> raw.creator,
           rawType |-> raw.type, rawYear |-> raw.year]

foreignKeyUnchecked(scanTable, s) == TRUE

\* scanId: text('scan_id').notNull().references(() => scans.id, ...), with
\* pragma foreign_keys = ON: an insert that refers to a scan needs its row.
foreignKeyHolds(scanTable, s) == scanTable[s].exists

CatchWithoutStatus(r, run, scanTable, itemTable, itemId) ==
  /\ scans' = scanTable
  /\ scanItems' = itemTable
  /\ nextItemId' = itemId
  /\ runs' = [runs EXCEPT ![r] =
                Returned(Close(Send(run, Ev("error", "message"))), "failed")]

\* The catch block of runFullScan and runReenrich.
Catch(r, run, scanTable, itemTable, itemId) ==
  /\ scans' = SetStatus(scanTable, run.scan, "error")
  /\ scanItems' = itemTable
  /\ nextItemId' = itemId
  /\ runs' = [runs EXCEPT ![r] =
                Returned(Close(Send(Announce(run, "error"), Ev("error", "message"))), "failed")]

\* The save loop of enrichAndSaveItems and what follows it in the caller:
\* the insert of row failAt throws (0: none does); an insert for a scan row
\* that is gone violates the foreign key.
SaveAndComplete(r, run, enriched, failAt) ==
  LET s == run.scan
      n == Len(enriched)
      stop == IF n > 0 /\ ~foreignKeyHolds(scans, s) THEN 1 ELSE failAt
      written == IF stop = 0 THEN n ELSE stop - 1
      rows == [i \in 1..written |-> Row(nextItemId + i - 1, s, enriched[i], run.items[i])]
  IN IF stop # 0
     THEN Catch(r, run, scans, scanItems \o rows, nextItemId + written)
     ELSE IF ~scans[s].exists
     THEN Catch(r, Announce(run, "complete"), scans, scanItems \o rows, nextItemId + written)
     ELSE /\ scans' = SetStatus(scans, s, "complete")
          /\ scanItems' = scanItems \o rows
          /\ nextItemId' = nextItemId + written
          /\ runs' = [runs EXCEPT ![r] =
                        Returned(Close(Send(Announce(run, "complete"), Ev("complete", "scan"))),
                                 "done")]

\* After enrichItems has returned: the library fetch when a library is
\* configured, else the save.
AfterEnrichItems(r, run, enriched) ==
  IF env.plex
  THEN /\ runs' = [runs EXCEPT ![r] = [run EXCEPT !.enriched = enriched, !.pc = "plex"]]
       /\ UNCHANGED <<scans, scanItems, nextItemId>>
  ELSE \E failAt \in 0..Len(enriched) : SaveAndComplete(r, run, enriched, failAt)

\* The checks of runFullScan up to its first await; a throw here rejects the
\* promise before the try block is entered.
BeginFullScan(run, hash, model, oversize) ==
  IF ~env.openrouter \/ ~env.tmdb \/ oversize \/ model \notin SupportedModels
  THEN Returned(run, "rejected")
  ELSE [run EXCEPT !.pc = "hash", !.hash = hash, !.model = model]

\* POST /api/scans
StartFullScan ==
  /\ HasFreeRun
  /\ \E hash \in UploadHashes, model \in RequestedModels \cup {""}, oversize \in BOOLEAN :
       LET run == [IdleRun EXCEPT !.kind = "full"]
       IN runs' = [runs EXCEPT ![FreeRun] =
                     IF oversize \/ model = ""
                     THEN [run EXCEPT !.pc = "done", !.http = "400"]
                     ELSE BeginFullScan(WithStream(run), hash, model, FALSE)]
  /\ served' = served + 1
  /\ UNCHANGED <<fixedVars, dbVars>>

\* POST /api/scans/[id]/rescan and runRescan
StartRescan ==
  /\ HasFreeRun
  /\ \E s \in ScanIds, model \in RequestedModels \cup {""} :
       LET run == WithStream([IdleRun EXCEPT !.kind = "rescan", !.source = s])
           held == {i \in 1..Len(images) : scans[s].exists /\ images[i].id = scans[s].imageId}
       IN runs' = [runs EXCEPT ![FreeRun] =
                     IF ~scans[s].exists \/ held = {}
                     THEN Returned(run, "rejected")
                     ELSE BeginFullScan(run, images[SetMin(held)].hash,
                                        IF model = "" THEN scans[s].modelId ELSE model, FALSE)]
  /\ served' = served + 1
  /\ UNCHANGED <<fixedVars, dbVars>>

imagesHoldingNone(table, hash) == {}

\* db.select().from(images).where(eq(images.hash, hash)).get()
imagesHolding(table, hash) == {i \in 1..Len(table) : table[i].hash = hash}

\* runFullScan from the hash to the await of the image conversion.
StoreAndCreate(r) ==
  /\ runs[r].pc = "hash"
  /\ LET run == runs[r]
         held == imagesHolding(images, run.hash)
         imageId == IF held = {} THEN Len(images) + 1 ELSE images[SetMin(held)].id
         s == FreeScan
     IN /\ images' = IF held = {} THEN Append(images, [id |-> imageId, hash |-> run.hash])
                     ELSE images
        /\ scans' = [scans EXCEPT ![s] =
                       [exists |-> TRUE, status |-> "analyzing", rawResponse |-> NoContent,
                        hasRaw |-> FALSE, imageId |-> imageId, modelId |-> run.model]]
        /\ runs' = [runs EXCEPT ![r] =
                      [Announce(Send([run EXCEPT !.writes = <<"pending">>],
                                     Ev("created", "scanId")), "analyzing")
                         EXCEPT !.scan = s, !.pc = "sharp"]]
  /\ UNCHANGED <<fixedVars, scanItems, usage, nextItemId, served>>

\* sharp(...).toBuffer() settles; on success the first vision call is issued.
ImageProcessed(r) ==
  /\ runs[r].pc = "sharp"
  /\ \E ok \in BOOLEAN :
       IF ok
       THEN /\ runs' = [runs EXCEPT ![r].pc = "llm", ![r].attempt = 0, ![r].calls = 1]
            /\ UNCHANGED <<scans, scanItems, nextItemId>>
       ELSE Catch(r, runs[r], scans, scanItems, nextItemId)
  /\ UNCHANGED <<fixedVars, images, usage, served>>

\* enrichAndSaveItems up to the await of the per-item resolutions.
BeginEnrich(r, run, scanTable, itemTable, items) ==
  IF ~env.tmdb
  THEN Catch(r, Announce(run, "enriching"), SetStatus(scanTable, run.scan, "enriching"),
             itemTable, nextItemId)
  ELSE /\ scans' = SetStatus(scanTable, run.scan, "enriching")
       /\ scanItems' = itemTable
       /\ nextItemId' = nextItemId
       /\ runs' = [runs EXCEPT ![r] =
                     [Announce(run, "enriching") EXCEPT
                        !.pc = "enrich", !.items = items,
                        !.settled = [i \in 1..Len(items) |-> Pending]]]

keepRawResponse(table, s, content) == table

\* db.update(scans).set({ rawResponse: rawResponseContent }).where(eq(scans.id, scanId))
storeRawResponse(table, s, content) ==
  IF table[s].exists
  THEN [table EXCEPT ![s].rawResponse = content, ![s].hasRaw = TRUE]
  ELSE table

\* callOpenRouter settles: a throw, or a response text that the attempt parses.
VisionResponds(r) ==
  /\ runs[r].pc = "llm"
  /\ \E threw \in BOOLEAN, content \in Responses :
       LET run == runs[r]
           heard == [run EXCEPT !.content = content]
           verdict == ParseAttempt(content)
       IN IF threw
          THEN /\ Catch(r, run, scans, scanItems, nextItemId)
               /\ usage' = usage
          ELSE IF verdict.ok /\ ~foreignKeyHolds(scans, run.scan)
          THEN /\ Catch(r, heard, scans, scanItems, nextItemId)
               /\ usage' = usage
          ELSE IF verdict.ok
          THEN /\ BeginEnrich(r, heard, storeRawResponse(scans, run.scan, content),
                              scanItems, verdict.items)
               /\ usage' = Append(usage, [scanId |-> run.scan, model |-> run.model])
          ELSE IF run.attempt + 1 < MaxAttempts
          THEN /\ runs' = [runs EXCEPT ![r] =
                             [heard EXCEPT !.attempt = @ + 1, !.calls = @ + 1]]
               /\ UNCHANGED <<scans, scanItems, nextItemId, usage>>
          ELSE /\ Catch(r, heard, scans, scanItems, nextItemId)
               /\ usage' = usage
  /\ UNCHANGED <<fixedVars, images, served>>

existsOnly(scan) == scan.exists

\* if (!scan) throw ...; if (!scan.rawResponse) throw ...
hasStoredResponse(scan) == scan.exists /\ scan.hasRaw

deleteNothing(table, s) == table

\* db.delete(scanItems).where(eq(scanItems.scanId, scanId))
deleteItemsOf(table, s) == SelectSeq(table, LAMBDA row : row.scanId # s)

\* POST /api/scans/[id]/re-enrich and runReenrich up to its first await.
StartReenrich ==
  /\ HasFreeRun
  /\ \E s \in ScanIds :
       LET r == FreeRun
           run == WithStream([IdleRun EXCEPT !.kind = "reenrich", !.scan = s])
           verdict == ParseAttempt(scans[s].rawResponse)
       IN IF ~hasStoredResponse(scans[s])
          THEN /\ runs' = [runs EXCEPT ![r] = Returned(run, "rejected")]
               /\ UNCHANGED <<scans, scanItems, nextItemId>>
          ELSE IF ~verdict.ok
          THEN Catch(r, run, scans, scanItems, nextItemId)
          ELSE BeginEnrich(r, run, scans, deleteItemsOf(scanItems, s), verdict.items)
  /\ served' = served + 1
  /\ UNCHANGED <<fixedVars, images, usage>>

\* What Promise.allSettled records for one resolution.
settleOne(out) == IF out.threw THEN Rejected ELSE Fulfilled(out.item)

\* One enrichSingleItem promise settles.
SettleItem(r, i) ==
  /\ runs[r].pc = "enrich"
  /\ i \in 1..Len(runs[r].items)
  /\ runs[r].settled[i] = Pending
  /\ runs' = [runs EXCEPT ![r].settled[i] =
                settleOne(enrichSingleItem(runs[r].items[i], services.catalog))]
  /\ UNCHANGED <<fixedVars, dbVars, served>>

collectOnCompletion(items, settled) ==
  LET done == SelectSeq(settled, LAMBDA x : x.state = "fulfilled")
  IN [i \in 1..Len(done) |-> done[i].value]

collectAllOrNothing(items, settled) ==
  [i \in 1..Len(settled) |->
     IF \A j \in 1..Len(settled) : settled[j].state = "fulfilled" THEN settled[i].value
     ELSE buildUnmatched(items[i])]

\* results.map((result, i) => fulfilled ? result.value : buildUnmatched(items[i]))
collect(items, settled) ==
  [i \in 1..Len(settled) |->
     IF settled[i].state = "fulfilled" THEN settled[i].value ELSE buildUnmatched(items[i])]

\* Promise.allSettled resolves: the results are collected by index.
ItemsSettled(r) ==
  /\ runs[r].pc = "enrich"
  /\ \A i \in 1..Len(runs[r].settled) : runs[r].settled[i] # Pending
  /\ LET enriched == collect(runs[r].items, runs[r].settled)
     IN IF env.tvdb
        THEN /\ runs' = [runs EXCEPT ![r].enriched = enriched, ![r].pc = "tvdb"]
             /\ UNCHANGED <<scans, scanItems, nextItemId>>
        ELSE AfterEnrichItems(r, runs[r], enriched)
  /\ UNCHANGED <<fixedVars, images, usage, served>>

\* The supplemental lookups of enrichItems: unmatched items are not looked up.
applyTvdb(enriched, answer) ==
  [i \in 1..Len(enriched) |->
     IF enriched[i].confidence # "unmatched"
        /\ answer.status = "fulfilled" /\ answer.value # NoId
     THEN [enriched[i] EXCEPT !.tvdbId = answer.value]
     ELSE enriched[i]]

\* The supplemental lookups have settled.
TvdbSettled(r) ==
  /\ runs[r].pc = "tvdb"
  /\ AfterEnrichItems(r, runs[r], applyTvdb(runs[r].enriched, services.tvdb))
  /\ UNCHANGED <<fixedVars, images, usage, served>>

crossReferenceAllOrNone(enriched, fetch) ==
  IF fetch.ok THEN [i \in 1..Len(enriched) |-> crossReference(enriched[i], fetch.items)]
  ELSE <<>>

\* for (const item of enriched) { const plexMatch = matchWithPlex(...) ... }
crossReferenceAll(enriched, fetch) ==
  IF fetch.ok THEN [i \in 1..Len(enriched) |-> crossReference(enriched[i], fetch.items)]
  ELSE enriched

\* fetchAllPlexItems settles.
PlexFetched(r) ==
  /\ runs[r].pc = "plex"
  /\ \E failAt \in 0..Len(runs[r].enriched) :
       SaveAndComplete(r, runs[r], crossReferenceAll(runs[r].enriched, services.plex), failAt)
  /\ UNCHANGED <<fixedVars, images, usage, served>>

\* enrichItems and the library cross-reference that follows it: what one
\* enrichment pass over items yields under deployment d.
settleAll(d, items) ==
  [i \in 1..Len(items) |-> settleOne(enrichSingleItem(items[i], d.services.catalog))]
supplementAll(d, resolved) ==
  IF d.env.tvdb THEN applyTvdb(resolved, d.services.tvdb) ELSE resolved
libraryAll(d, supplemented) ==
  IF d.env.plex THEN crossReferenceAll(supplemented, d.services.plex) ELSE supplemented
PassEnriched(d, items) ==
  libraryAll(d, supplementAll(d, collect(items, settleAll(d, items))))

\* The deployment the process runs under.
Deployed == [env |-> env, services |-> services]

\* ───────────────────────── Single-item edit (items/[itemId] route) ─────────────────────────
EditTitles == {<<>>, T_Star}
EditCreators == {Null, "Fixed"}

\* PUT up to the await of enrichItems.
EditItem ==
  /\ HasFreeRun
  /\ \E s \in ScanIds, itemId \in 1..nextItemId, title \in EditTitles, creator \in EditCreators :
       LET run == [IdleRun EXCEPT !.kind = "edit", !.scan = s]
           found == {k \in 1..Len(scanItems) :
                       scanItems[k].id = itemId /\ scanItems[k].scanId = s}
           item == scanItems[SetMin(found)]
           respond(code) == [run EXCEPT !.pc = "done", !.http = code]
       IN runs' = [runs EXCEPT ![FreeRun] =
                     IF title = <<>> THEN respond("400")
                     ELSE IF found = {} THEN respond("404")
                     ELSE IF ~env.tmdb THEN respond("500")
                     ELSE [run EXCEPT
                             !.pc = "editing",
                             !.edit = [itemId |-> itemId,
                                       item |-> Item(title,
                                                     IF creator = Null THEN item.creator
                                                     ELSE creator,
                                                     item.type, item.rawYear),
                                       rawCreator |-> IF creator = Null THEN item.rawCreator
                                                      ELSE creator]]]
  /\ served' = served + 1
  /\ UNCHANGED <<fixedVars, dbVars>>

updateItemsOfScan(table, itemId, enrichedItem, title, rawCreator) ==
  [k \in 1..Len(table) |->
     IF \E j \in 1..Len(table) : table[j].id = itemId /\ table[j].scanId = table[k].scanId
     THEN Row(table[k].id, table[k].scanId, enrichedItem,
              [title |-> title, creator |-> rawCreator,
               type |-> table[k].rawType, year |-> table[k].rawYear])
     ELSE table[k]]

\* db.update(scanItems).set(updates).where(eq(scanItems.id, itemId))
updateItem(table, itemId, enrichedItem, title, rawCreator) ==
  [k \in 1..Len(table) |->
     IF table[k].id = itemId
     THEN Row(itemId, table[k].scanId, enrichedItem,
              [title |-> title, creator |-> rawCreator,
               type |-> table[k].rawType, year |-> table[k].rawYear])
     ELSE table[k]]

\* PUT from the resolution of enrichItems to the response.
EditResolved(r) ==
  /\ runs[r].pc = "editing"
  /\ scanItems' = updateItem(scanItems, runs[r].edit.itemId,
                             PassEnriched(Deployed, <<runs[r].edit.item>>)[1],
                             runs[r].edit.item.title, runs[r].edit.rawCreator)
  /\ runs' = [runs EXCEPT ![r] = [Returned(runs[r], "done") EXCEPT !.http = "200"]]
  /\ UNCHANGED <<fixedVars, images, scans, usage, nextItemId, served>>

\* ───────────────────────── Specifications ─────────────────────────
\* The request is over: its response has been delivered or its connection is
\* gone, and nothing of it remains in the process.
RequestEnds(r) ==
  /\ runs[r].pc \in {"done", "failed", "rejected"}
  /\ runs' = [runs EXCEPT ![r] = IdleRun]
  /\ UNCHANGED <<fixedVars, dbVars, served>>

IdleResolve == [op |-> "idle"]

InitPipeline ==
  /\ \E d \in Deployments : env = d.env /\ services = d.services
  /\ images = <<>>
  /\ scans = [s \in ScanIds |-> NoScan]
  /\ scanItems = <<>>
  /\ usage = <<>>
  /\ nextItemId = 1
  /\ runs = [r \in 1..MaxRuns |-> IdleRun]
  /\ served = 0
  /\ memo = ColdMemo
  /\ callers = NoCallers

Init == InitPipeline /\ resolve = IdleResolve /\ client = IdleClient

Next ==
  \/ StartFullScan
  \/ StartRescan
  \/ StartReenrich
  \/ EditItem
  \/ \E r \in RunIds : StoreAndCreate(r)
  \/ \E r \in RunIds : ImageProcessed(r)
  \/ \E r \in RunIds : VisionResponds(r)
  \/ \E r \in RunIds, i \in 1..MaxItems : SettleItem(r, i)
  \/ \E r \in RunIds : ItemsSettled(r)
  \/ \E r \in RunIds : TvdbSettled(r)
  \/ \E r \in RunIds : PlexFetched(r)
  \/ \E r \in RunIds : EditResolved(r)
  \/ \E r \in RunIds : RequestEnds(r)

Spec == Init /\ [][Next]_vars

\* The continuations the event loop runs on its own: the synchronous part of
\* a scan up to its first await, the local image conversion, the resolution of
\* Promise.allSettled once every promise has settled, and the end of a request.
ProgramStep ==
  \E r \in RunIds : StoreAndCreate(r) \/ ImageProcessed(r) \/ ItemsSettled(r) \/ RequestEnds(r)

\* The pipeline with the event loop's scheduling: a continuation that can run
\* does run. The continuations of VisionResponds, SettleItem, TvdbSettled,
\* PlexFetched and EditResolved run only when an external service has answered
\* a fetch; every fetch is issued with no signal and no timer, so nothing in
\* the process ends the wait for a service that does not answer.
SpecAwaiting == Init /\ [][Next]_vars /\ WF_vars(ProgramStep)

\* The maintenance requests against a database an earlier process has left:
\* one scan completed under the first deployment, its raw response and its
\* rows stored, and a process started under any deployment that serves
\* concurrent re-enrich and edit requests on it. Each request keeps its slot
\* of runs to the end of the behaviour.
StoredContent == Content(FALSE, JItems(SubSeq(ValidRawItems, 1, MaxItems)), JAbsent)
StoredItems == ParseAttempt(StoredContent).items
Creator ==
  [env |-> Env(TRUE, TRUE, TRUE, TRUE),
   services |-> Services(CatalogWorld, TvdbFulfilled(7001), PlexLibrary)]

RowsOf(s, items, enriched, firstId) ==
  [i \in 1..Len(items) |-> Row(firstId + i - 1, s, enriched[i], items[i])]
PassRows(d, s, items, firstId) == RowsOf(s, items, PassEnriched(d, items), firstId)

StoredScan ==
  [exists |-> TRUE, status |-> "complete", rawResponse |-> StoredContent, hasRaw |-> TRUE,
   imageId |-> 1, modelId |-> "openai/gpt-4o"]

InitStored ==
  /\ \E d \in Deployments : env = d.env /\ services = d.services
  /\ images = <<[id |-> 1, hash |-> 1]>>
  /\ scans = [s \in ScanIds |-> IF s = 1 THEN StoredScan ELSE NoScan]
  /\ scanItems = PassRows(Creator, 1, StoredItems, 1)
  /\ usage = <<[scanId |-> 1, model |-> "openai/gpt-4o"]>>
  /\ nextItemId = Len(StoredItems) + 1
  /\ runs = [r \in 1..MaxConcurrent |-> IdleRun]
  /\ served = 0
  /\ memo = ColdMemo
  /\ callers = NoCallers
  /\ client = IdleClient
  /\ resolve = IdleResolve

NextStored ==
  \/ StartReenrich
  \/ EditItem
  \/ \E r \in RunIds, i \in 1..MaxItems : SettleItem(r, i)
  \/ \E r \in RunIds : ItemsSettled(r)
  \/ \E r \in RunIds : TvdbSettled(r)
  \/ \E r \in RunIds : PlexFetched(r)
  \/ \E r \in RunIds : EditResolved(r)

SpecStored == InitStored /\ [][NextStored]_vars

\* DELETE /api/scans/[id]: the usage records, the items and the row of the
\* scan, in one synchronous stretch.
DeleteScan ==
  /\ \E s \in ScanIds :
       /\ scans[s].exists
       /\ usage' = SelectSeq(usage, LAMBDA u : u.scanId # s)
       /\ scanItems' = deleteItemsOf(scanItems, s)
       /\ scans' = [scans EXCEPT ![s] = DeletedScan]
  /\ UNCHANGED <<fixedVars, images, nextItemId, runs, served>>

\* The process serving overlapping requests from an empty database: scans,
\* re-scans and re-enrichments in flight together, and deletes between their
\* steps. Each request keeps its slot of runs to the end of the behaviour.
SharedDeployments == {d \in Deployments : d.services.catalog = CatalogWorld}

InitShared ==
  /\ \E d \in SharedDeployments : env = d.env /\ services = d.services
  /\ images = <<>>
  /\ scans = [s \in ScanIds |-> NoScan]
  /\ scanItems = <<>>
  /\ usage = <<>>
  /\ nextItemId = 1
  /\ runs = [r \in 1..MaxConcurrent |-> IdleRun]
  /\ served = 0
  /\ memo = ColdMemo
  /\ callers = NoCallers
  /\ client = IdleClient
  /\ resolve = IdleResolve

NextShared ==
  \/ StartFullScan
  \/ StartRescan
  \/ StartReenrich
  \/ DeleteScan
  \/ \E r \in RunIds : StoreAndCreate(r)
  \/ \E r \in RunIds : ImageProcessed(r)
  \/ \E r \in RunIds : VisionResponds(r)
  \/ \E r \in RunIds, i \in 1..MaxItems : SettleItem(r, i)
  \/ \E r \in RunIds : ItemsSettled(r)
  \/ \E r \in RunIds : TvdbSettled(r)
  \/ \E r \in RunIds : PlexFetched(r)

SpecShared == InitShared /\ [][NextShared]_vars

\* ───────────────────────── The consumer of the event stream ─────────────────────────
\* cancel() of the ReadableStream: the client went away and the controller is dropped.
ClientCancels(r) ==
  /\ runs[r].http = "stream" /\ runs[r].open
  /\ runs' = [runs EXCEPT ![r].open = FALSE]
  /\ UNCHANGED <<fixedVars, dbVars, served>>

NextStream == Next \/ \E r \in RunIds : ClientCancels(r)

SpecStream == Init /\ [][NextStream]_vars

\* ───────────────────────── The browser's stream parser (use-scan-stream) ─────────────────────────
NL == "\n"
EventPrefix == <<"e", "v", "e", "n", "t", ":", " ">>
DataPrefix == <<"d", "a", "t", "a", ":", " ">>
Quote == "\""

EventName(name) ==
  CASE name = "created" -> <<"c", "r", "e", "a", "t", "e", "d">>
    [] name = "status" -> <<"s", "t", "a", "t", "u", "s">>
    [] name = "complete" -> <<"c", "o", "m", "p", "l", "e", "t", "e">>
    [] name = "error" -> <<"e", "r", "r", "o", "r">>
EventNames == {"created", "status", "complete", "error"}

ArgText(arg) ==
  CASE arg = "scanId" -> <<"s", "1">>
    [] arg = "analyzing" -> <<"a", "n", "a", "l", "y", "z", "i", "n", "g">>
    [] arg = "enriching" -> <<"e", "n", "r", "i", "c", "h", "i", "n", "g">>
    [] arg = "complete" -> <<"c", "o", "m", "p", "l", "e", "t", "e">>
    [] arg = "error" -> <<"e", "r", "r", "o", "r">>
    [] arg = "scan" -> <<"{", "}">>
    [] arg = "message" -> <<"f", "a", "i", "l", "e", "d">>
Args == {"scanId", "analyzing", "enriching", "complete", "error", "scan", "message"}

\* JSON.stringify(data): one line of text; the data object is stood for by
\* the one value it carries.
stringify(arg) == <<Quote>> \o ArgText(arg) \o <<Quote>>

\* const payload = `event: ${event}\ndata: ${JSON.stringify(data)}\n\n`
payload(ev) ==
  EventPrefix \o EventName(ev.event) \o <<NL>> \o DataPrefix \o stringify(ev.arg) \o <<NL, NL>>

RECURSIVE Wire(_)
\* The bytes of a stream: the payloads in the order they were enqueued.
Wire(events) == IF events = <<>> THEN <<>> ELSE payload(Head(events)) \o Wire(Tail(events))

\* The places of the line feeds of a text, and the k-th of them.
Feeds(text) == {i \in 1..Len(text) : text[i] = NL}
Feed(text, k) ==
  IF k = 0 THEN 0
  ELSE CHOOSE i \in Feeds(text) : Cardinality({j \in Feeds(text) : j < i}) = k - 1

\* buffer.split('\n') without its last part, and the last part (lines.pop()).
splitLines(text) ==
  [k \in 1..Cardinality(Feeds(text)) |-> SubSeq(text, Feed(text, k - 1) + 1, Feed(text, k) - 1)]
lastPart(text) == SubSeq(text, Feed(text, Cardinality(Feeds(text))) + 1, Len(text))

startsWith(line, prefix) == Len(line) >= Len(prefix) /\ SubSeq(line, 1, Len(prefix)) = prefix
slice(line, n) == SubSeq(line, n + 1, Len(line))

\* JSON.parse(data) and the switch of processStream: the event handled, or
\* none when the data does not parse or the name is not one of the four.
handle(event, data) ==
  IF /\ Len(data) >= 2 /\ Head(data) = Quote /\ data[Len(data)] = Quote
     /\ \E n \in EventNames : EventName(n) = event
     /\ \E a \in Args : ArgText(a) = SubSeq(data, 2, Len(data) - 1)
  THEN <<Ev(CHOOSE n \in EventNames : EventName(n) = event,
            CHOOSE a \in Args : ArgText(a) = SubSeq(data, 2, Len(data) - 1))>>
  ELSE <<>>

\* let currentEvent = ''; let currentData = '' inside the read loop: what was
\* collected from the lines of one read is gone at the next.
currentAtRead(kept) == [event |-> <<>>, data |-> <<>>]

RECURSIVE parseLines(_, _, _, _)
\* The loop over the lines of one read.
parseLines(lines, k, cur, out) ==
  IF k > Len(lines) THEN [cur |-> cur, out |-> out]
  ELSE IF startsWith(lines[k], EventPrefix)
  THEN parseLines(lines, k + 1, [cur EXCEPT !.event = trim(slice(lines[k], 7))], out)
  ELSE IF startsWith(lines[k], DataPrefix)
  THEN parseLines(lines, k + 1, [cur EXCEPT !.data = trim(slice(lines[k], 6))], out)
  ELSE IF lines[k] = <<>> /\ cur.event # <<>> /\ cur.data # <<>>
  THEN parseLines(lines, k + 1, [event |-> <<>>, data |-> <<>>],
                  out \o handle(cur.event, cur.data))
  ELSE parseLines(lines, k + 1, cur, out)

\* What the server may have written to a stream that it has closed.
WrittenStreams ==
  {<<Ev("created", "scanId"), Ev("status", "analyzing"), Ev("status", "error"),
     Ev("error", "message")>>,
   <<Ev("status", "enriching"), Ev("status", "complete"), Ev("complete", "scan")>>,
   <<Ev("status", "enriching"), Ev("status", "error"), Ev("error", "message")>>}

NoCurrent == [event |-> <<>>, data |-> <<>>]

\* The read that ends after byte pos of the stream ends behind the event line
\* of some event and before that event's end.
endsInsideEvent(written, pos) ==
  \E k \in 1..Len(written) :
    /\ pos >= Len(Wire(SubSeq(written, 1, k - 1))) + Len(EventPrefix)
                + Len(EventName(written[k].event)) + 1
    /\ pos < Len(Wire(SubSeq(written, 1, k)))

\* It ends inside the event line of some event.
endsInsideEventLine(written, pos) ==
  \E k \in 1..Len(written) :
    /\ pos > Len(Wire(SubSeq(written, 1, k - 1)))
    /\ pos < Len(Wire(SubSeq(written, 1, k - 1))) + Len(EventPrefix)
               + Len(EventName(written[k].event)) + 1

\* One reader.read() that returns bytes, and the loop body of parseSSE with
\* the handler of processStream run on every event it yields.
ReadChunk ==
  /\ client.pc = "reading" /\ client.rest # <<>>
  /\ \E n \in 1..Len(client.rest) :
       client' = [client EXCEPT
                    !.rest = SubSeq(@, n + 1, Len(@)),
                    !.split = @ \/ endsInsideEvent(client.written,
                                                    Len(Wire(client.written)) - Len(client.rest) + n),
                    !.lineSplit = @ \/ endsInsideEventLine(client.written,
                                                            Len(Wire(client.written)) - Len(client.rest) + n),
                    !.buffer = lastPart(client.buffer \o SubSeq(client.rest, 1, n)),
                    !.current = parseLines(splitLines(client.buffer \o SubSeq(client.rest, 1, n)),
                                           1, currentAtRead(client.current), <<>>).cur,
                    !.handled = @ \o parseLines(splitLines(client.buffer \o SubSeq(client.rest, 1, n)),
                                                 1, currentAtRead(client.current), <<>>).out]
  /\ UNCHANGED <<env, services, dbVars, runs, served, resolve, memo, callers>>

\* reader.read() returns done: the generator ends and what is buffered is dropped.
ReadDone ==
  /\ client.pc = "reading" /\ client.rest = <<>>
  /\ client' = [client EXCEPT !.pc = "done"]
  /\ UNCHANGED <<env, services, dbVars, runs, served, resolve, memo, callers>>

InitClient ==
  /\ InitPipeline /\ resolve = IdleResolve
  /\ env = Env(TRUE, TRUE, TRUE, TRUE) /\ services.catalog = CatalogWorld
  /\ \E w \in WrittenStreams :
       client = [pc |-> "reading", written |-> w, rest |-> Wire(w), buffer |-> <<>>,
                 current |-> NoCurrent, split |-> FALSE, lineSplit |-> FALSE, handled |-> <<>>]

NextClient == ReadChunk \/ ReadDone

SpecClient == InitClient /\ [][NextClient]_vars

\* ───────────────────────── Adapter caches (getToken, loadGenreCache) ─────────────────────────
\* Time is counted in days; the clock moves by ClockStep up to MaxClock.
TOKEN_LIFETIME_MS == 27
ClockStep == 9
MaxClock == 36

ClockMoves ==
  /\ memo.clock + ClockStep <= MaxClock
  /\ memo' = [memo EXCEPT !.clock = @ + ClockStep]
  /\ UNCHANGED <<env, services, dbVars, runs, served, resolve, callers, client>>

\* if (cachedToken && now < tokenExpiresAt) return cachedToken
tokenUsable(m, now) == m.cachedToken # NoToken /\ now < m.tokenExpiresAt

\* getToken up to its first await: the cached token, or the login request.
GetToken(c) ==
  /\ callers[c].pc = "idle"
  /\ callers' = [callers EXCEPT ![c] =
                   IF tokenUsable(memo, memo.clock)
                   THEN [IdleCaller EXCEPT !.last = "cached"]
                   ELSE [IdleCaller EXCEPT !.pc = "login", !.now = memo.clock, !.last = "login"]]
  /\ UNCHANGED <<env, services, dbVars, runs, served, resolve, memo, client>>

tokenExpiryFromResponse(m, now) == m.clock + TOKEN_LIFETIME_MS

\* tokenExpiresAt = now + TOKEN_LIFETIME_MS
tokenExpiry(m, now) == now + TOKEN_LIFETIME_MS

\* The login request settles: a token, named here by the call it answers, or
\* a failure (a status that is not ok, no token in the body, a transport error).
LoginSettles(c) ==
  /\ callers[c].pc = "login"
  /\ \E ok \in BOOLEAN :
       /\ memo' = IF ok
                  THEN [memo EXCEPT !.cachedToken = [by |-> c, started |-> callers[c].now],
                                    !.tokenExpiresAt = tokenExpiry(memo, callers[c].now)]
                  ELSE memo
       /\ callers' = [callers EXCEPT ![c] =
                        [IdleCaller EXCEPT !.last = IF ok THEN "token" ELSE "threw"]]
  /\ UNCHANGED <<env, services, dbVars, runs, served, resolve, client>>

\* The genre lists of the primary catalog.
MovieGenres == {[id |-> 28, name |-> "Action"], [id |-> 18, name |-> "Drama"]}
TvGenres == {[id |-> 18, name |-> "Drama"], [id |-> 10759, name |-> "Action & Adventure"]}

\* for (const g of data.genres ?? []) genreCache.set(g.id, g.name)
setAll(cache, genres) == {e \in cache : \A g \in genres : g.id # e.id} \cup genres

\* loadGenreCache up to its await: nothing when the flag is set, else the two requests.
LoadGenreCache(c) ==
  /\ callers[c].pc = "idle"
  /\ callers' = [callers EXCEPT ![c] =
                   IF memo.genreCacheLoaded THEN [IdleCaller EXCEPT !.last = "loaded"]
                   ELSE [IdleCaller EXCEPT !.pc = "genres", !.last = "genres"]]
  /\ UNCHANGED <<env, services, dbVars, runs, served, resolve, memo, client>>

\* genreCacheLoaded = true, at the end of the try block
flagLoaded(m) == [m EXCEPT !.genreCacheLoaded = TRUE]

\* Promise.all settles: a transport error is caught and leaves the flag, else
\* the function goes on to the first response body it has to read.
GenresFetched(c) ==
  /\ callers[c].pc = "genres"
  /\ \E threw \in BOOLEAN, movieOk \in BOOLEAN, tvOk \in BOOLEAN :
       IF threw
       THEN /\ callers' = [callers EXCEPT ![c] = [IdleCaller EXCEPT !.last = "caught"]]
            /\ memo' = memo
       ELSE IF movieOk
       THEN /\ callers' = [callers EXCEPT ![c] =
                             [IdleCaller EXCEPT !.pc = "movieJson", !.movieOk = TRUE,
                                                !.tvOk = tvOk, !.last = "genres"]]
            /\ memo' = memo
       ELSE IF tvOk
       THEN /\ callers' = [callers EXCEPT ![c] =
                             [IdleCaller EXCEPT !.pc = "tvJson", !.tvOk = TRUE, !.last = "genres"]]
            /\ memo' = memo
       ELSE /\ callers' = [callers EXCEPT ![c] = [IdleCaller EXCEPT !.last = "flagged"]]
            /\ memo' = flagLoaded(memo)
  /\ UNCHANGED <<env, services, dbVars, runs, served, resolve, client>>

\* await movieRes.json() settles: the movie genres are set, or the body
\* does not parse and the catch block leaves the flag.
MovieListRead(c) ==
  /\ callers[c].pc = "movieJson"
  /\ \E parsed \in BOOLEAN :
       IF ~parsed
       THEN /\ memo' = memo
            /\ callers' = [callers EXCEPT ![c] = [IdleCaller EXCEPT !.last = "caught"]]
       ELSE IF callers[c].tvOk
       THEN /\ memo' = [memo EXCEPT !.genreCache = setAll(@, MovieGenres)]
            /\ callers' = [callers EXCEPT ![c].pc = "tvJson"]
       ELSE /\ memo' = flagLoaded([memo EXCEPT !.genreCache = setAll(@, MovieGenres)])
            /\ callers' = [callers EXCEPT ![c] = [IdleCaller EXCEPT !.last = "flagged"]]
  /\ UNCHANGED <<env, services, dbVars, runs, served, resolve, client>>

\* await tvRes.json() settles: the TV genres are set and the flag with them,
\* or the body does not parse and the catch block leaves the flag.
TvListRead(c) ==
  /\ callers[c].pc = "tvJson"
  /\ \E parsed \in BOOLEAN :
       IF parsed
       THEN /\ memo' = flagLoaded([memo EXCEPT !.genreCache = setAll(@, TvGenres)])
            /\ callers' = [callers EXCEPT ![c] = [IdleCaller EXCEPT !.last = "flagged"]]
       ELSE /\ memo' = memo
            /\ callers' = [callers EXCEPT ![c] = [IdleCaller EXCEPT !.last = "caught"]]
  /\ UNCHANGED <<env, services, dbVars, runs, served, resolve, client>>

\* The adapters called by concurrent enrichments of one process.
InitAdapters == Init /\ services.catalog = CatalogWorld

NextAdapters ==
  \/ ClockMoves
  \/ \E c \in DOMAIN callers : GetToken(c)
  \/ \E c \in DOMAIN callers : LoginSettles(c)
  \/ \E c \in DOMAIN callers : LoadGenreCache(c)
  \/ \E c \in DOMAIN callers : GenresFetched(c)
  \/ \E c \in DOMAIN callers : MovieListRead(c)
  \/ \E c \in DOMAIN callers : TvListRead(c)

SpecAdapters == InitAdapters /\ [][NextAdapters]_vars

\* The matching layer on its own: the initial state draws one call, either one
\* item to resolve against one catalog or one supplemental search over one
\* result list, and the action applies the code to it.
ResolveCalls ==
  {[op |-> "resolve", item |-> item, world |-> w] : item \in ResolveItems, w \in Worlds}
TvdbCalls ==
  {[op |-> "search", title |-> title, year |-> year, response |-> response] :
     title \in {T_Star, T_TheStar, T_StarS1}, year \in {NoYear, 1999},
     response \in TvdbResponses}

\* The supplemental catalog's answers to one id resolution.
Remote(state, results) == [state |-> state, results |-> results]
Typed(type, r) == [type |-> type, r |-> r]
Record(series, movie) == [series |-> series, movie |-> movie]
RemoteSearchAnswers ==
  {Remote("throw", <<>>), Remote("fail", <<>>), Remote("ok", <<>>),
   Remote("ok", <<Typed("person", TvdbResult(D_71, <<>>, <<>>, T_Xxxx, <<>>)),
                  Typed("series", TvdbResult(<<>>, D_series72, <<>>, T_Stat, D_1999))>>),
   Remote("ok", <<Typed("person", TvdbResult(<<>>, D_movie0, <<>>, T_Xxxx, <<>>))>>)}
RemotePathAnswers ==
  {Remote("fail", <<>>), Remote("ok", <<>>),
   Remote("ok", <<Record(0, NoId), Record(NoId, 73)>>)}
TitleAnswers == {Ok(<<>>), Ok(<<TvdbResult(D_71, <<>>, <<>>, T_Star, D_1999)>>)}
TvdbWorlds ==
  {[remoteSearch |-> rs, remotePath |-> rp, series |-> <<s1, s2>>, movie |-> m] :
     rs \in RemoteSearchAnswers, rp \in RemotePathAnswers,
     s1 \in TitleAnswers, s2 \in TitleAnswers, m \in TitleAnswers}
ResolveIdCalls ==
  {[op |-> "resolveId", title |-> title, year |-> NoYear, imdbId |-> imdbId, type |-> type,
    world |-> w] :
     title \in {T_Star, T_StarS1}, imdbId \in {Null, "", "tt0001"},
     type \in {"movie", "tv", "dvd"}, w \in TvdbWorlds}

\* Library lists and the queries matched against them.
PlexPool ==
  {PlexItem(T_Star, 2000, "rk1", "tt0009", D_71),
   PlexItem(T_TheStar, 1997, "rk2", Null, <<>>),
   PlexItem(T_TheStar, NoYear, "rk3", Null, <<>>),
   PlexItem(T_Xxxx, 1999, "rk4", Null, <<>>)}
PlexCalls ==
  {[op |-> "plex", title |-> title, year |-> year, plexItems |-> l] :
     title \in {T_Star, T_TheStar, T_StarS1, T_Stat}, year \in {NoYear, 0, 1999, 2001},
     l \in ListsUpTo(PlexPool, MaxCand)}

ResolveSingle ==
  /\ resolve.op = "resolve"
  /\ resolve' = [op |-> "single", item |-> resolve.item, world |-> resolve.world,
                 out |-> enrichSingleItem(resolve.item, resolve.world)]
  /\ UNCHANGED <<env, services, dbVars, runs, served, memo, callers, client>>

TvdbSearch ==
  /\ resolve.op = "search"
  /\ resolve' = [op |-> "tvdb", title |-> resolve.title, year |-> resolve.year,
                 response |-> resolve.response,
                 scored |-> searchTVDBScored(resolve.title, resolve.year, resolve.response),
                 legacy |-> searchTVDBSeries(resolve.title, resolve.year, resolve.response)]
  /\ UNCHANGED <<env, services, dbVars, runs, served, memo, callers, client>>

ResolveId ==
  /\ resolve.op = "resolveId"
  /\ resolve' = [op |-> "resolvedId", title |-> resolve.title, year |-> resolve.year,
                 imdbId |-> resolve.imdbId, type |-> resolve.type, world |-> resolve.world,
                 scored |-> resolveTVDBId("scored", resolve.title, resolve.year,
                                          resolve.imdbId, resolve.type, resolve.world),
                 legacy |-> resolveTVDBId("legacy", resolve.title, resolve.year,
                                          resolve.imdbId, resolve.type, resolve.world)]
  /\ UNCHANGED <<env, services, dbVars, runs, served, memo, callers, client>>

LibraryMatch ==
  /\ resolve.op = "plex"
  /\ resolve' = [op |-> "plexMatched", title |-> resolve.title, year |-> resolve.year,
                 plexItems |-> resolve.plexItems,
                 out |-> matchWithPlex(resolve.title, resolve.year, resolve.plexItems)]
  /\ UNCHANGED <<env, services, dbVars, runs, served, memo, callers, client>>

NextResolve == ResolveSingle \/ TvdbSearch \/ ResolveId \/ LibraryMatch

InitResolve ==
  /\ InitPipeline /\ client = IdleClient
  /\ env = Env(TRUE, TRUE, TRUE, TRUE) /\ services.catalog = CatalogWorld
  /\ resolve \in ResolveCalls \cup TvdbCalls \cup ResolveIdCalls \cup PlexCalls

SpecResolve == InitResolve /\ [][NextResolve]_vars

\* ───────────────────────── Properties of the matching layer ─────────────────────────
Resolved == resolve.op = "single" /\ ~resolve.out.threw
Searched == resolve.op = "tvdb"

\* The candidate list the last search of a path returned.
MovieResults(w) == searchTMDBMovies(w.movie)
\* For TV: the answer to the last TV search issued, which is the search without
\* the year when that request dropped the item's year, else the second
\* search when two were issued.
TVResults(item, w, reqs) ==
  LET searches == SelectSeq(reqs, LAMBDA q : q.op = "searchTV")
      last == searches[Len(searches)]
  IN IF Len(searches) = 0 THEN <<>>
     ELSE IF last.year = NoYear /\ item.year # NoYear THEN searchTMDBTV(w.tv[3])
     ELSE IF Len(searches) = 2 THEN searchTMDBTV(w.tv[2])
     ELSE searchTMDBTV(w.tv[1])

PrimaryScores(item, results) == [i \in 1..Len(results) |-> totalScore(item, results[i])]
SupplementalScores(title, year, results) ==
  [i \in 1..Len(results) |-> scoreTVDBResult(title, year, results[i])]

\* i is the first position of scores that attains their maximum.
FirstMax(scores, i) ==
  /\ i \in 1..Len(scores)
  /\ \A j \in 1..Len(scores) : FracGE(scores[i], scores[j])
  /\ \A j \in 1..(i - 1) : FracLT(scores[j], scores[i])

BelowThreshold(scores) == \A j \in 1..Len(scores) : FracLT(scores[j], ScoreLow)
Reaches(scores, bar) == \E j \in 1..Len(scores) : FracGE(scores[j], bar)

AllCatalogNull(e) ==
  /\ e.tmdbId = NoId /\ e.imdbId = Null /\ e.tvdbId = NoId
  /\ e.posterUrl = Null /\ e.overview = Null /\ e.rating = Null
  /\ e.releaseDate = Null /\ e.genres = Null /\ e.director = Null
  /\ e.runtime = Null /\ e.network = Null /\ e.seasons = Null /\ e.showStatus = Null

\* The accepted candidate of a primary path is the first one with the
\* maximum score, and nothing is accepted below the threshold.
AcceptsFirstMax(item, results, e) ==
  LET scores == PrimaryScores(item, results)
  IN /\ e.confidence # "unmatched" =>
          \E i \in 1..Len(results) :
            /\ results[i].id = e.tmdbId
            /\ FirstMax(scores, i)
            /\ FracGE(scores[i], ScoreLow)
     /\ BelowThreshold(scores) => e.confidence = "unmatched"

PrimaryAcceptsFirstMax ==
  /\ (Resolved /\ resolve.item.type = "movie") =>
       AcceptsFirstMax(resolve.item, MovieResults(resolve.world), resolve.out.item)
  /\ (Resolved /\ resolve.item.type = "tv") =>
       AcceptsFirstMax(resolve.item, TVResults(resolve.item, resolve.world, resolve.out.reqs),
                       resolve.out.item)

\* The same for one supplemental search: pick is the chosen position, 0 for none.
SupplementalAcceptsFirstMax(pick) ==
  LET results == IF resolve.response.ok THEN resolve.response.results ELSE <<>>
      scores == SupplementalScores(resolve.title, resolve.year, results)
  IN /\ pick.idx # 0 => FirstMax(scores, pick.idx) /\ FracGE(scores[pick.idx], ScoreLow)
     /\ BelowThreshold(scores) => pick.idx = 0

ScoredSearchAcceptsFirstMax == Searched => SupplementalAcceptsFirstMax(resolve.scored)
LegacySearchAcceptsFirstMax == Searched => SupplementalAcceptsFirstMax(resolve.legacy)

\* C6: in every matching path (primary movie, primary TV, supplemental title
\* search) the accepted candidate is the first candidate in catalog order
\* that attains the maximum score, and no candidate is accepted when the
\* maximum score is below 0.50.
C6_FirstMaxAboveThreshold ==
  /\ PrimaryAcceptsFirstMax
  /\ ScoredSearchAcceptsFirstMax
  /\ LegacySearchAcceptsFirstMax

\* The tier of one movie or TV resolution against the scores of its candidates.
Tiered(item, results, e) ==
  LET scores == PrimaryScores(item, results)
  IN /\ Reaches(scores, ScoreHigh) => e.confidence = "high"
     /\ (Reaches(scores, ScoreLow) /\ ~Reaches(scores, ScoreHigh)) => e.confidence = "low"
     /\ ~Reaches(scores, ScoreLow) =>
          e.confidence = "unmatched" /\ e.source = "none" /\ AllCatalogNull(e)

\* C7: for movie and TV matching, an item whose best total score is s gets
\* confidence high if s >= 0.85, low if 0.50 <= s < 0.85, and is returned
\* unmatched with all catalog fields null if s < 0.50 or if the search
\* returned no candidate.
C7_ConfidenceTiering ==
  /\ (Resolved /\ resolve.item.type = "movie") =>
       Tiered(resolve.item, MovieResults(resolve.world), resolve.out.item)
  /\ (Resolved /\ resolve.item.type = "tv") =>
       Tiered(resolve.item, TVResults(resolve.item, resolve.world, resolve.out.reqs),
              resolve.out.item)

\* A movie whose best candidate scores exactly 0.85 (0.75 for the title and
\* the year bonus) was resolved, and a TV item whose best scores exactly 0.50.
C7_Witness ==
  /\ Resolved /\ resolve.item.type = "movie"
  /\ LET scores == PrimaryScores(resolve.item, MovieResults(resolve.world))
     IN /\ Len(scores) = MaxCand
        /\ Reaches(scores, ScoreHigh)
        /\ \A j \in 1..Len(scores) : ~FracGT(scores[j], ScoreHigh)
  /\ resolve.out.item.confidence = "high"

C7_WitnessLow ==
  /\ Resolved /\ resolve.item.type = "tv"
  /\ LET scores == PrimaryScores(resolve.item,
                                 TVResults(resolve.item, resolve.world, resolve.out.reqs))
     IN Reaches(scores, ScoreLow) /\ \A j \in 1..Len(scores) : ~FracGT(scores[j], ScoreLow)
  /\ resolve.out.item.confidence = "low"

MovieMatchable(item, w) == Reaches(PrimaryScores(item, MovieResults(w)), ScoreLow)
TVMatchable(item, w, reqs) == Reaches(PrimaryScores(item, TVResults(item, w, reqs)), ScoreLow)
Issued(reqs, ops) == \E k \in 1..Len(reqs) : reqs[k].op \in ops

\* C8: a disc is first matched as a movie; TV matching is attempted only if
\* the movie result is unmatched; the final result is the first of the two
\* that is not unmatched (a disc that fails movie matching and succeeds TV
\* matching ends as the TV match with its confidence and source), otherwise
\* unmatched.  Vinyl, game and other items are returned unmatched without
\* any catalog request.
C8_DiscDispatch ==
  /\ (Resolved /\ resolve.item.type = "dvd") =>
       LET item == resolve.item
           w == resolve.world
           reqs == resolve.out.reqs
           e == resolve.out.item
       IN /\ Len(reqs) > 0 /\ reqs[1].op = "searchMovie"
          /\ \A k \in 1..Len(reqs) :
               reqs[k].op \in {"searchTV", "tvDetails"} =>
                 /\ ~MovieMatchable(item, w)
                 /\ \E j \in 1..(k - 1) : reqs[j].op = "searchMovie"
          /\ MovieMatchable(item, w) =>
               /\ e.type = "movie" /\ e.source = "tmdb"
               /\ Tiered(item, MovieResults(w), e)
               /\ ~Issued(reqs, {"searchTV", "tvDetails"})
          /\ ~MovieMatchable(item, w) =>
               /\ Issued(reqs, {"searchTV"})
               /\ TVMatchable(item, w, reqs) =>
                    /\ e.type = "tv" /\ e.source = "tmdb"
                    /\ Tiered(item, TVResults(item, w, reqs), e)
               /\ ~TVMatchable(item, w, reqs) =>
                    e.confidence = "unmatched" /\ e.type = "dvd" /\ AllCatalogNull(e)
  /\ (Resolved /\ resolve.item.type \in {"vinyl", "game", "other"}) =>
       /\ resolve.out.reqs = <<>>
       /\ resolve.out.item.confidence = "unmatched"
       /\ resolve.out.item.source = "none"
       /\ AllCatalogNull(resolve.out.item)

\* A disc whose movie search found candidates, none good enough, ended as
\* the TV match.
C8_Witness ==
  /\ Resolved /\ resolve.item.type = "dvd"
  /\ Len(MovieResults(resolve.world)) > 0
  /\ ~MovieMatchable(resolve.item, resolve.world)
  /\ resolve.out.item.type = "tv"
  /\ resolve.out.item.confidence = "high"

\* ───────────────────────── Properties of the scan pipeline ─────────────────────────
StatusOrder == <<"pending", "analyzing", "enriching", "complete">>
FullScans == {r \in RunIds : runs[r].kind \in {"full", "rescan"}}
Streaming == {r \in RunIds : runs[r].http = "stream"}
Last(seq) == seq[Len(seq)]

\* The statuses one full scan has written are a prefix of the order, or such
\* a prefix short of complete followed by error.
OrderedWrites(w) ==
  \E k \in 0..Len(StatusOrder) :
    \/ w = SubSeq(StatusOrder, 1, k)
    \/ k \in 1..(Len(StatusOrder) - 1) /\ w = Append(SubSeq(StatusOrder, 1, k), "error")

FullScanStatusOrder ==
  \A r \in FullScans :
    /\ OrderedWrites(runs[r].writes)
    /\ runs[r].pc = "done" /\ runs[r].http = "stream" => runs[r].writes = StatusOrder
    /\ runs[r].pc = "failed" => Last(runs[r].writes) = "error"

\* Every status a full scan writes is the persisted status of its scan when
\* the write is made; a run that fails leaves error persisted.
FullScanWritesPersisted ==
  \A r \in RunIds :
    (runs'[r].kind \in {"full", "rescan"} /\ runs'[r].writes # runs[r].writes) =>
      /\ scans'[runs'[r].scan].exists
      /\ scans'[runs'[r].scan].status = Last(runs'[r].writes)

\* C1: during one full scan the persisted status takes the values pending,
\* analyzing, enriching, complete in that order, nothing skipped or repeated
\* on the success path; from pending, analyzing or enriching the only other
\* transition is to error; an exception after the scan record was created
\* sets the persisted status to error and stops the run.
C1_StatusOrder == []FullScanStatusOrder /\ [][FullScanWritesPersisted]_vars

\* A full scan has completed, and another has failed while enriching.
C1_Witness ==
  \E r \in FullScans :
    /\ runs[r].pc = "failed"
    /\ runs[r].writes = <<"pending", "analyzing", "enriching", "error">>
    /\ scans[runs[r].scan].status = "error"

C1_WitnessComplete ==
  \E r \in FullScans : runs[r].pc = "done" /\ runs[r].writes = StatusOrder

\* C2: once a scan's persisted status is error, no later operation on that
\* scan (re-enrich, single-item edit, re-scan) changes it.
C2_ErrorIsTerminal ==
  [][\A s \in ScanIds :
       (scans[s].exists /\ scans[s].status = "error") => scans'[s].status = "error"]_vars

\* C3: in every enriched item persisted for a scan or written by a
\* single-item edit, confidence unmatched implies source none and every
\* catalog field null, also after the supplemental and the library steps.
C3_UnmatchedHasNoCatalogData ==
  \A k \in 1..Len(scanItems) :
    scanItems[k].confidence = "unmatched" =>
      scanItems[k].source = "none" /\ AllCatalogNull(scanItems[k])

\* What resolving one identified item yields, a throw degraded to unmatched.
Resolution(item) ==
  LET out == enrichSingleItem(item, services.catalog)
  IN IF out.threw THEN buildUnmatched(item) ELSE out.item

\* The fields of an enriched item that the steps after the resolution leave alone.
Core(e) ==
  [title |-> e.title, creator |-> e.creator, type |-> e.type, confidence |-> e.confidence,
   source |-> e.source, tmdbId |-> e.tmdbId, year |-> e.year, posterUrl |-> e.posterUrl]

\* The rows one step has inserted.
Inserted == SelectSeq(scanItems', LAMBDA row : row.id >= nextItemId)

AlignedWith(row, item) ==
  /\ row.rawTitle = item.title /\ row.rawCreator = item.creator
  /\ row.rawType = item.type /\ row.rawYear = item.year
  /\ Core(row) = Core(Resolution(item))

\* An enrichment pass that completes has written one row per identified item,
\* row i being the resolution of item i.
CompletedPassAligned ==
  \A r \in RunIds :
    (runs[r].pc \in {"enrich", "tvdb", "plex"} /\ runs'[r].pc = "done") =>
      /\ Len(Inserted) = Len(runs[r].items)
      /\ \A i \in 1..Len(Inserted) :
           Inserted[i].scanId = runs[r].scan /\ AlignedWith(Inserted[i], runs[r].items[i])

\* Once collected, the enriched items are as many as the identified ones.
CollectedAligned ==
  \A r \in RunIds :
    runs[r].pc \in {"tvdb", "plex"} =>
      /\ Len(runs[r].enriched) = Len(runs[r].items)
      /\ \A i \in 1..Len(runs[r].items) :
           Core(runs[r].enriched[i]) = Core(Resolution(runs[r].items[i]))

\* C4: for any list of N identified items, enrichment yields exactly N
\* enriched items and the item at position i is the resolution of identified
\* item i, persisted with the raw title, creator, kind and year of item i,
\* whatever order the resolutions complete in and whichever of them fail.
C4_IndexAlignment == []CollectedAligned /\ [][CompletedPassAligned]_vars

\* A pass whose last item settled before its first one, the first one by a
\* throw, has been collected.
C4_Witness ==
  \E r \in RunIds :
    /\ runs[r].pc \in {"tvdb", "plex"}
    /\ Len(runs[r].items) = MaxItems
    /\ runs[r].settled[1] = Rejected
    /\ runs[r].enriched[Len(runs[r].items)].confidence # "unmatched"

RejectedOf(settled) == {i \in 1..Len(settled) : settled[i] = Rejected}

\* With exactly one rejected resolution, the collected item at that position
\* is unmatched and the others are the values their resolutions fulfilled.
OneThrowIsolated ==
  \A r \in RunIds :
    (runs[r].pc \in {"tvdb", "plex"} /\ Cardinality(RejectedOf(runs[r].settled)) = 1) =>
      \A i \in 1..Len(runs[r].settled) :
        IF i \in RejectedOf(runs[r].settled)
        THEN /\ runs[r].enriched[i].confidence = "unmatched"
             /\ runs[r].enriched[i].source = "none"
             /\ runs[r].enriched[i].title = runs[r].items[i].title
        ELSE Core(runs[r].enriched[i]) = Core(runs[r].settled[i].value)

\* Collecting the settled resolutions never fails the run: it goes on to the
\* supplemental step, the library step or the save.
CollectionGoesOn ==
  \A r \in RunIds :
    (runs[r].pc = "enrich" /\ runs'[r].pc # "enrich" /\ (env.tvdb \/ env.plex)) =>
      runs'[r].pc \in {"tvdb", "plex"} /\ runs'[r].writes = runs[r].writes

\* C5: if the resolution of exactly one of N concurrently resolved items
\* throws, that item degrades to unmatched, the results of the other N-1
\* items are the same as if it had not thrown, and the scan still reaches
\* complete.
C5_PartialFailureIsolation == []OneThrowIsolated /\ [][CollectionGoesOn]_vars

\* A scan one of whose resolutions threw is complete, the item of the throw
\* persisted unmatched beside a matched one.
C5_Witness ==
  \E s \in ScanIds :
    /\ scans[s].exists /\ scans[s].status = "complete"
    /\ services.catalog = BrokenWorld
    /\ Len(ItemsOf(scanItems, s)) = MaxItems
    /\ ItemsOf(scanItems, s)[1].confidence = "unmatched"
    /\ ItemsOf(scanItems, s)[1].rawType = "movie"
    /\ ItemsOf(scanItems, s)[2].confidence # "unmatched"

\* What a response text parses to: the whole text when it is JSON, else its
\* fenced block.
ParsedFrom(content) == IF content.direct.kind # "syntaxError" THEN content.direct ELSE content.fence

\* The response was empty, could not be parsed as JSON, or failed validation
\* after coercion.
RetryWarranted(content) ==
  \/ content.empty
  \/ ParsedFrom(content).kind \in {"syntaxError", "absent"}
  \/ ~SchemaValid(coerceItemTypes(ParsedFrom(content)))

AtMostTwoCalls == \A r \in RunIds : runs[r].calls <= 2

VisionStep ==
  \A r \in RunIds :
    runs[r].pc = "llm" =>
      \* a second call follows a first response that warrants it, and no third
      /\ runs'[r].calls # runs[r].calls =>
           /\ runs[r].calls = 1 /\ runs'[r].calls = 2
           /\ RetryWarranted(runs'[r].content)
      \* a valid list goes on to enrichment without another call
      /\ runs'[r].pc = "enrich" =>
           /\ ~RetryWarranted(runs'[r].content)
           /\ runs'[r].calls = runs[r].calls
           /\ runs'[r].items = ParseAttempt(runs'[r].content).items
      \* otherwise the scan ends in error with nothing persisted
      /\ runs'[r].pc \notin {"llm", "enrich"} =>
           /\ runs'[r].pc = "failed"
           /\ scans'[runs[r].scan].status = "error"
           /\ ItemsOf(scanItems', runs[r].scan) = <<>>

\* C9: a full scan issues at most two vision-model calls; the second only if
\* the first response was empty, could not be parsed as JSON (neither
\* directly nor from a fenced block) or failed schema validation after
\* coercion (a fenced block that parses and validates consumes no retry); if
\* neither attempt yields a valid item list the scan ends in error with no
\* item persisted.
C9_VisionRetry == []AtMostTwoCalls /\ [][VisionStep]_vars

\* A scan went on to enrichment on its first call with a response whose
\* fenced block alone parsed.
C9_Witness ==
  \E r \in RunIds :
    /\ runs[r].pc = "enrich" /\ runs[r].calls = 1
    /\ runs[r].content.direct.kind = "syntaxError"
    /\ runs[r].content.fence.kind = "object"

\* A scan is waiting for its second call after a first response that parsed
\* and did not validate.
C9_WitnessRetry ==
  \E r \in RunIds :
    /\ runs[r].pc = "llm" /\ runs[r].calls = 2
    /\ ParsedFrom(runs[r].content).kind = "object"

TerminalEvents(events) == {k \in 1..Len(events) : events[k].event \in {"complete", "error"}}

\* C10: every invocation of full scan, re-scan or re-enrich through its
\* streaming endpoint writes exactly one terminal event to the stream
\* (complete or error) and closes the stream, also when it fails a
\* precondition: an invocation that has ended has done so.
C10_OneTerminalEventThenClose ==
  \A r \in Streaming :
    runs[r].pc \in {"done", "failed", "rejected"} =>
      /\ ~runs[r].open
      /\ TerminalEvents(runs[r].events) = {Len(runs[r].events)}
      /\ Len(runs[r].events) > 0

\* The same for the invocations that entered the try block.
EndedInsideTryTerminates ==
  \A r \in Streaming :
    runs[r].pc \in {"done", "failed"} =>
      /\ ~runs[r].open
      /\ TerminalEvents(runs[r].events) = {Len(runs[r].events)}
      /\ Len(runs[r].events) > 0

\* ───────────────────────── Properties of the maintenance requests ─────────────────────────
\* The credentials an operation cannot do without: the primary-catalog key
\* for all four, the vision-model key for the two that call the vision model.
RequiredMissing(kind) ==
  \/ ~env.tmdb
  \/ kind \in {"full", "rescan"} /\ ~env.openrouter

\* A step of a request that lacks a required credential leaves the tables alone.
ConfigErrorStep ==
  \A r \in RunIds :
    (runs'[r] # runs[r] /\ runs'[r].kind # "none" /\ RequiredMissing(runs'[r].kind)) =>
      UNCHANGED dbVars

\* C11: when a required credential is missing, full scan, re-scan, re-enrich
\* and single-item edit fail without having modified any persisted state: no
\* image, scan, item or usage row is created, changed or deleted.
C11_ConfigErrorChangesNothing == [][ConfigErrorStep]_vars

\* The same for the requests of the scan pipeline alone.
ScanConfigErrorChangesNothing == [][ConfigErrorStep]_vars

\* A re-scan works on the image stored for the scan it was requested for.
RescanUsesStoredImage ==
  \A r \in RunIds :
    (runs[r].kind = "rescan" /\ runs[r].scan # 0) =>
      scans[runs[r].scan].imageId = scans[runs[r].source].imageId

\* The step in which a re-scan stores the response of its vision call.
RescanStores(r) == runs[r].kind = "rescan" /\ runs[r].pc = "llm" /\ runs'[r].pc = "enrich"

\* C12: a re-scan of scan S re-runs analyzing and enriching against the image
\* stored for S, and its fresh raw vision response overwrites the raw
\* response stored for S.
C12_RescanOverwritesRaw ==
  [][\A r \in RunIds :
       RescanStores(r) =>
         /\ RescanUsesStoredImage
         /\ scans'[runs[r].source].hasRaw
         /\ scans'[runs[r].source].rawResponse = runs'[r].content]_vars

Reenrichments == {r \in RunIds : runs[r].kind = "reenrich"}

\* The step in which re-enrich r completes.
ReenrichCompletes(r) ==
  /\ runs[r].kind = "reenrich"
  /\ runs[r].pc \in {"enrich", "tvdb", "plex"}
  /\ runs'[r].pc = "done"

\* No step of a re-enrich calls the vision model, adds a usage record or
\* touches the stored raw response.
ReenrichKeepsResponse ==
  \A r \in RunIds :
    (runs'[r].kind = "reenrich" /\ runs'[r] # runs[r]) =>
      /\ runs'[r].calls = 0
      /\ usage' = usage
      /\ \A s \in ScanIds : scans'[s].rawResponse = scans[s].rawResponse
                               /\ scans'[s].hasRaw = scans[s].hasRaw

\* A re-enrich that no other re-enrich ran beside leaves the scan with the
\* rows resolved from the stored response and no other row.
ReenrichReplacesItems ==
  \A r \in RunIds :
    (ReenrichCompletes(r) /\ Reenrichments = {r}) =>
      ItemsOf(scanItems', runs[r].scan) =
        PassRows(Deployed, runs[r].scan,
                 ParseAttempt(scans[runs[r].scan].rawResponse).items, nextItemId)

ReenrichWithoutResponse(r) ==
  /\ runs[r].kind = "none" /\ runs'[r].kind = "reenrich"
  /\ scans[runs'[r].scan].exists /\ ~scans[runs'[r].scan].hasRaw

\* C14: re-enrich of a scan that has no stored raw response fails fast: it
\* deletes no item, does not change the scan's status and issues no
\* catalog, library or vision call.
C14_ReenrichFailsFast ==
  [][\A r \in RunIds :
       ReenrichWithoutResponse(r) =>
         /\ UNCHANGED dbVars
         /\ runs'[r].pc = "rejected" /\ runs'[r].calls = 0
         /\ runs'[r].settled = <<>> /\ runs'[r].writes = <<>>]_vars

C14_Witness ==
  \E r \in RunIds :
    /\ runs[r].kind = "reenrich" /\ runs[r].pc = "rejected"
    /\ scans[runs[r].scan].exists /\ ~scans[runs[r].scan].hasRaw
    /\ scans[runs[r].scan].status = "error"

\* A stored raw response is a text that passed parsing and validation, a scan
\* that got as far as enriching has one, and one that failed in analyzing has none.
StoredResponseIsValidated ==
  /\ \A s \in ScanIds :
       IF scans[s].hasRaw THEN ParseAttempt(scans[s].rawResponse).ok
       ELSE scans[s].rawResponse = NoContent
  /\ \A r \in FullScans :
       /\ Len(runs[r].writes) >= 3 /\ runs[r].writes[3] = "enriching" =>
            scans[runs[r].scan].hasRaw
       /\ runs[r].writes = <<"pending", "analyzing", "error">> =>
            ~scans[runs[r].scan].hasRaw

\* The response is set by the vision attempt that passed, to its text, and
\* no step changes it after that.
StoredResponseSetOnce ==
  \A s \in ScanIds :
    /\ scans[s].hasRaw =>
         scans'[s].hasRaw /\ scans'[s].rawResponse = scans[s].rawResponse
    /\ (~scans[s].hasRaw /\ scans'[s].hasRaw) =>
         \E r \in FullScans :
           /\ runs[r].pc = "llm" /\ runs[r].scan = s
           /\ scans'[s].rawResponse = runs'[r].content

PassEnds(r) ==
  /\ runs[r].pc \in {"enrich", "tvdb", "plex"}
  /\ runs'[r].pc \in {"done", "failed"}

\* C16: whenever an enrichment pass has ended, in complete or in error,
\* either all N enriched items of the pass are persisted or none is: a
\* failure while writing item k never leaves the items before it persisted.
C16_PassAllOrNothing ==
  [][\A r \in RunIds : PassEnds(r) => Len(Inserted) \in {0, Len(runs[r].items)}]_vars

InFlight == {r \in RunIds : runs[r].pc \notin {"idle", "done", "failed", "rejected"}}

\* C17: under any interleaving of re-enrich runs and single-item edits on the
\* same scan, whenever no run is in flight and the scan's status is complete,
\* the scan holds exactly one persisted item per identified item of its
\* stored raw response.
C17_OneItemPerIdentified ==
  \A s \in ScanIds :
    (InFlight = {} /\ scans[s].exists /\ scans[s].status = "complete") =>
      Len(ItemsOf(scanItems, s)) = Len(ParseAttempt(scans[s].rawResponse).items)

\* ───────────────────────── Properties of the library cross-reference ─────────────────────────
LibraryFields == {"plexMatch", "plexRatingKey", "imdbId", "tvdbId"}

\* after is before with nothing but the library fields changed.
OnlyLibraryFields(before, after) ==
  \A f \in (DOMAIN before) \ LibraryFields : after[f] = before[f]

\* An identifier that was not null is the same afterwards.
KeepsNonNullIds(before, after) ==
  /\ before.imdbId # Null => after.imdbId = before.imdbId
  /\ before.tvdbId # NoId => after.tvdbId = before.tvdbId

\* An identifier that was present (neither null nor empty nor zero) is the
\* same afterwards.
KeepsPresentIds(before, after) ==
  /\ before.imdbId \notin {Null, ""} => after.imdbId = before.imdbId
  /\ before.tvdbId \notin {NoId, 0} => after.tvdbId = before.tvdbId

\* The item a single-item edit holds when it reaches the library step.
BeforeLibrary(item) ==
  supplementAll(Deployed, collect(<<item>>, settleAll(Deployed, <<item>>)))[1]

\* The row a single-item edit has written.
EditedRows(r) == SelectSeq(scanItems', LAMBDA row : row.id = runs[r].edit.itemId)

\* Every item that passes the library step, in the pipeline or in an edit,
\* comes out with its other fields unchanged and its identifiers kept: the
\* non-null ones when strict, else the present ones.
Kept(strict, before, after) ==
  /\ OnlyLibraryFields(before, after)
  /\ IF strict THEN KeepsNonNullIds(before, after) ELSE KeepsPresentIds(before, after)

LibraryStep(strict) ==
  \A r \in RunIds :
    /\ (runs[r].pc = "plex" /\ runs'[r].pc \in {"done", "failed"}) =>
         \A i \in 1..Len(Inserted) :
           Kept(strict, runs[r].enriched[i], Inserted[i])
    /\ (runs[r].pc = "editing" /\ runs'[r].pc = "done") =>
         \A k \in 1..Len(EditedRows(r)) :
           Kept(strict, BeforeLibrary(runs[r].edit.item), EditedRows(r)[k])

\* C18 as stated: the library cross-reference changes only the library-match
\* flag, the library reference and identifier fields that were null; a
\* non-null imdbId or tvdbId is never replaced.
C18_LibraryFillsOnlyNull == [][LibraryStep(TRUE)]_vars

\* C18, amended: the library cross-reference changes only the library-match
\* flag, the library reference and identifier fields that were absent (null,
\* the empty string or zero); a present imdbId or tvdbId is never replaced,
\* and every other field is left unchanged, in the pipeline and in the edit.
C18_LibraryFillsOnlyAbsent == [][LibraryStep(FALSE)]_vars

\* A persisted item matched a library entry that carries other identifiers
\* and kept the imdbId and the tvdbId the catalogs gave it.
C18_Witness ==
  \E k \in 1..Len(scanItems) :
    /\ scanItems[k].plexMatch /\ scanItems[k].plexRatingKey = "rk2"
    /\ scanItems[k].imdbId = "tt0001"
    /\ scanItems[k].tvdbId = 7001

\* A persisted item has had its absent identifiers filled from the library.
C18_WitnessFilled ==
  \E k \in 1..Len(scanItems) :
    /\ scanItems[k].plexMatch /\ scanItems[k].confidence # "unmatched"
    /\ scanItems[k].imdbId = "tt0009"
    /\ scanItems[k].tvdbId = 71

\* ───────────────────────── Properties of the supplemental id resolution ─────────────────────────
ResolvedId == resolve.op = "resolvedId"
HasCrossReference == resolve.imdbId \notin {Null, ""}
TitleSearches(reqs) == {k \in 1..Len(reqs) : reqs[k] \in {"searchSeries", "searchMovie"}}

\* What the direct lookup of lib returns for the call.
DirectLookup(lib) == findTVDBByImdbId(lib, resolve.world)

\* The id the direct lookup returned stands and no title search was issued;
\* a title search was issued only without a cross-reference id or after a
\* direct lookup that returned nothing.
DirectIdStands(lib, out) ==
  /\ (HasCrossReference /\ DirectLookup(lib).found) =>
       out.tvdbId = DirectLookup(lib).id /\ TitleSearches(out.reqs) = {}
  /\ TitleSearches(out.reqs) # {} => ~HasCrossReference \/ ~DirectLookup(lib).found
  /\ ~HasCrossReference => \A k \in 1..Len(out.reqs) : k \in TitleSearches(out.reqs)

\* C19: when a matched item carries a cross-reference id from the primary
\* catalog and the direct-id lookup returns an id, the item's supplemental id
\* is that id and no title search is issued for the item; a title search is
\* issued only when no cross-reference id is present or the direct lookup
\* returned nothing; one id at most is produced.
C19_DirectIdNotOverridden ==
  ResolvedId =>
    /\ DirectIdStands("scored", resolve.scored)
    /\ DirectIdStands("legacy", resolve.legacy)
    /\ resolve.scored.tvdbId \in Int /\ resolve.legacy.tvdbId \in Int

\* The direct lookup returned an id where the title search would have found
\* another one, and the direct one is the result.
C19_Witness ==
  /\ ResolvedId /\ HasCrossReference
  /\ DirectLookup("scored").found /\ DirectLookup("legacy").found
  /\ searchByTitle("scored", resolve.title, resolve.year, resolve.type, resolve.world).tvdbId = 71
  /\ resolve.scored.tvdbId = 72
  /\ resolve.legacy.tvdbId = 0

\* ───────────────────────── Properties of termination ─────────────────────────
Terminal(s) == scans[s].exists /\ scans[s].status \in {"complete", "error"}

\* C20: every scan that was created eventually reaches status complete or
\* error, also when a vision-model, catalog or library request never receives
\* a response: the call ends after a bounded time instead of being awaited
\* forever.
C20_CreatedScanEnds == \A s \in ScanIds : scans[s].exists ~> Terminal(s)

\* How far a run is from its end: every step of a run that has started
\* brings it closer, so a run whose awaited services all answer does end.
Pendings(run) == Cardinality({i \in 1..Len(run.settled) : run.settled[i] = Pending})
Distance(run) ==
  CASE run.pc = "idle" -> 0
    [] run.pc \in {"done", "failed", "rejected"} -> 1
    [] run.pc \in {"plex", "editing"} -> 2
    [] run.pc = "tvdb" -> 3
    [] run.pc = "enrich" -> 4 + Pendings(run)
    [] run.pc = "llm" -> 5 + MaxItems + (MaxAttempts - run.attempt)
    [] run.pc = "sharp" -> 6 + MaxItems + MaxAttempts
    [] run.pc = "hash" -> 7 + MaxItems + MaxAttempts
RunAdvances ==
  [][\A r \in RunIds :
       runs[r].pc # "idle" /\ runs'[r] # runs[r] => Distance(runs'[r]) < Distance(runs[r])]_vars

\* A scan that is created and not ended is one whose run awaits a service or
\* has a continuation of its own to run.
UnendedScanIsInProgress ==
  \A s \in ScanIds :
    scans[s].exists /\ ~Terminal(s) =>
      \E r \in RunIds : runs[r].scan = s /\ runs[r].pc \in {"sharp", "llm", "enrich", "tvdb", "plex"}

\* ───────────────────────── Properties of the single-item edit ─────────────────────────
EditAccepted(r) == runs[r].kind = "none" /\ runs'[r].kind = "edit" /\ runs'[r].pc = "editing"
EditRefused(r) == runs[r].kind = "none" /\ runs'[r].kind = "edit" /\ runs'[r].http \in {"400", "404"}
EditPersists(r) == runs[r].pc = "editing" /\ runs'[r].pc = "done"
Addressed(r) == {k \in 1..Len(scanItems) : scanItems[k].id = runs[r].edit.itemId}

\* The item handed to the resolution has the kind of the row it was read from.
KindFromRecord(r) ==
  \E k \in 1..Len(scanItems) :
    /\ scanItems[k].id = runs'[r].edit.itemId /\ scanItems[k].scanId = runs'[r].scan
    /\ runs'[r].edit.item.type = scanItems[k].type

\* The write of an edit is an update of the addressed row alone.
UpdatesOneRow(r) ==
  /\ Len(scanItems') = Len(scanItems)
  /\ \A k \in 1..Len(scanItems) :
       IF k \in Addressed(r)
       THEN /\ scanItems'[k].id = scanItems[k].id
            /\ scanItems'[k].scanId = scanItems[k].scanId
            /\ scanItems'[k].rawTitle = runs[r].edit.item.title
            /\ scanItems'[k].title = PassEnriched(Deployed, <<runs[r].edit.item>>)[1].title
            /\ scanItems'[k].confidence = PassEnriched(Deployed, <<runs[r].edit.item>>)[1].confidence
       ELSE scanItems'[k] = scanItems[k]
  /\ scans' = scans /\ images' = images /\ usage' = usage

EditStep ==
  \A r \in RunIds :
    /\ EditAccepted(r) => KindFromRecord(r) /\ UNCHANGED dbVars
    /\ EditRefused(r) => UNCHANGED dbVars
    /\ EditPersists(r) => UpdatesOneRow(r)

\* C21: a single-item edit re-resolves the addressed item alone, with its
\* kind taken from the existing record, and persists the result as an update
\* of that row: the number of items, every other item, the scan's status and
\* its stored raw response are unchanged; when the title is missing or the
\* item does not belong to the scan, nothing is changed.
C21_EditUpdatesOneRow == [][EditStep]_vars

\* An edit has been persisted on one row of a scan that holds several.
C21_Witness ==
  \E r \in RunIds, k \in 1..Len(scanItems) :
    /\ runs[r].kind = "edit" /\ runs[r].http = "200"
    /\ scanItems[k].rawCreator = "Fixed" /\ scanItems[k].rawTitle = T_Star
    /\ \E j \in 1..Len(scanItems) :
         j # k /\ scanItems[j].scanId = scanItems[k].scanId /\ scanItems[j].rawCreator # "Fixed"

\* An edit has been refused for an item that is not of the scan.
C21_WitnessRefused ==
  \E r \in RunIds : runs[r].kind = "edit" /\ runs[r].http = "404" /\ Len(scanItems) > 0

\* ───────────────────────── Properties of the image store ─────────────────────────
OneRowPerHash ==
  \A i \in 1..Len(images), j \in 1..Len(images) : images[i].hash = images[j].hash => i = j

\* A scan of bytes that are stored already inserts no image row and refers
\* to the stored one.
ReusesStoredImage ==
  \A r \in RunIds, i \in 1..Len(images) :
    (runs[r].pc = "hash" /\ runs'[r].pc = "sharp" /\ images[i].hash = runs[r].hash) =>
      /\ images' = images
      /\ scans'[runs'[r].scan].imageId = images[i].id

\* C22: after any sequence or interleaving of full scans and re-scans there
\* is at most one stored image row per content hash: a scan of bytes identical
\* to a stored image references the existing row and inserts none, also when
\* two such scans start concurrently.
C22_OneImagePerHash == []OneRowPerHash /\ [][ReusesStoredImage]_vars

\* Two scans of the same bytes overlapped (the one that started second
\* created its scan first) and share the one image row.
C22_Witness ==
  /\ Len(images) = 1
  /\ runs[1].kind = "full" /\ runs[2].kind = "full"
  /\ runs[1].scan = 2 /\ runs[2].scan = 1
  /\ scans[1].exists /\ scans[2].exists /\ scans[1].imageId = scans[2].imageId

\* ───────────────────────── Properties of the scan delete ─────────────────────────
Referring(s) ==
  {k \in 1..Len(scanItems) : scanItems[k].scanId = s} \cup
  {100 + k : k \in {j \in 1..Len(usage) : usage[j].scanId = s}}

\* C23: after a scan is deleted, no item and no usage record referring to it
\* exists in any later state, also when the delete happens while a full scan
\* or a re-enrich of that scan is in flight and later tries to persist.
C23_DeletedScanOwnsNothing ==
  \A s \in ScanIds : scans[s] = DeletedScan => Referring(s) = {}

\* A run of a deleted scan has tried to save its items and has failed.
C23_Witness ==
  \E r \in RunIds :
    /\ runs[r].kind \in {"full", "reenrich"} /\ runs[r].pc = "failed"
    /\ runs[r].scan # 0 /\ scans[runs[r].scan] = DeletedScan
    /\ "enriching" \in {runs[r].writes[k] : k \in 1..Len(runs[r].writes)}

\* ───────────────────────── Properties of failed service calls ─────────────────────────
\* The same catalog with both detail fetches answered.
WithDetails(w) == [w EXCEPT !.movieDetails = MovieDetailsFull, !.tvDetails = TVDetailsFull]

\* What the search and the scoring have obtained for an item.
Obtained(e) ==
  [title |-> e.title, type |-> e.type, confidence |-> e.confidence, source |-> e.source,
   tmdbId |-> e.tmdbId, year |-> e.year, posterUrl |-> e.posterUrl, overview |-> e.overview,
   rating |-> e.rating, releaseDate |-> e.releaseDate, genres |-> e.genres]

\* The fields an enriched item carries, without those of its row.
ItemFields == DOMAIN buildUnmatched(Item(T_Star, "Unknown", "movie", NoYear))
SameItem(a, b) == \A f \in ItemFields : a[f] = b[f]

\* A failed detail fetch leaves what was obtained as it is and the detail
\* fields null.
SoftDetails(item, w) ==
  /\ enrichSingleItem(item, w).threw = enrichSingleItem(item, WithDetails(w)).threw
  /\ ~enrichSingleItem(item, w).threw =>
       /\ Obtained(enrichSingleItem(item, w).item)
            = Obtained(enrichSingleItem(item, WithDetails(w)).item)
       /\ (enrichSingleItem(item, w).item.type = "movie" /\ ~w.movieDetails.ok) =>
            /\ enrichSingleItem(item, w).item.imdbId = Null
            /\ enrichSingleItem(item, w).item.runtime = Null
            /\ enrichSingleItem(item, w).item.director = Null
       /\ (enrichSingleItem(item, w).item.type = "tv" /\ ~w.tvDetails.ok) =>
            /\ enrichSingleItem(item, w).item.imdbId = Null
            /\ enrichSingleItem(item, w).item.network = Null
            /\ enrichSingleItem(item, w).item.seasons = Null

\* A failed search yields no candidates: the item comes out unmatched.
SoftSearch(item, w) ==
  /\ ~w.movie.ok => searchTMDBMovies(w.movie) = <<>>
  /\ \A k \in 1..3 : ~w.tv[k].ok => searchTMDBTV(w.tv[k]) = <<>>
  /\ \/ item.type = "movie" /\ ~w.movie.ok
     \/ /\ item.type = "tv"
        /\ \E k \in 1..3 : ~w.tv[k].ok
        /\ \A k \in 1..3 : ~w.tv[k].ok \/ w.tv[k].results = <<>>
     =>
       /\ ~enrichSingleItem(item, w).threw
       /\ enrichSingleItem(item, w).item = buildUnmatched(item)

SoftResolutions ==
  \A r \in RunIds :
    runs[r].pc = "enrich" =>
      \A i \in 1..Len(runs[r].items) :
        SoftDetails(runs[r].items[i], services.catalog)
        /\ SoftSearch(runs[r].items[i], services.catalog)

\* What a step hands on of the items it held: to the next step, or to the rows.
HandedOn(r) == IF runs'[r].pc = "plex" THEN runs'[r].enriched ELSE Inserted

SoftSteps ==
  \A r \in RunIds :
    /\ (/\ runs[r].pc = "tvdb" /\ services.tvdb.status # "fulfilled"
        /\ runs'[r].pc \notin {"tvdb", "failed"}) =>
         /\ Len(HandedOn(r)) = Len(runs[r].enriched)
         /\ \A i \in 1..Len(HandedOn(r)) : SameItem(HandedOn(r)[i], runs[r].enriched[i])
    /\ (runs[r].pc = "plex" /\ ~services.plex.ok /\ runs'[r].pc \notin {"plex", "failed"}) =>
         /\ Len(Inserted) = Len(runs[r].enriched)
         /\ \A i \in 1..Len(Inserted) : SameItem(Inserted[i], runs[r].enriched[i])
    /\ (PassEnds(r) /\ runs'[r].pc = "failed") => Len(Inserted) < Len(runs[r].items)

\* C24: a non-2xx response or a transport failure of a primary-catalog call,
\* of a supplemental-catalog call or of the library fetch never fails the
\* scan: a failed search yields no candidates, a failed detail fetch or
\* supplemental lookup yields null detail fields or a null supplemental id, a
\* failed library fetch skips the cross-reference, and the confidence and the
\* primary-catalog fields already obtained for the item are unchanged.
C24_ServiceFailuresAreSoft == []SoftResolutions /\ [][SoftSteps]_vars

\* A scan has completed with a matched item although the supplemental lookup
\* was rejected and the library fetch failed.
C24_Witness ==
  /\ env.tvdb /\ env.plex /\ services.tvdb.status = "rejected" /\ ~services.plex.ok
  /\ \E k \in 1..Len(scanItems) :
       /\ scanItems[k].confidence # "unmatched"
       /\ scanItems[k].tvdbId = NoId /\ ~scanItems[k].plexMatch
       /\ scans[scanItems[k].scanId].status = "complete"

\* A scan has completed with an item left unmatched by a failed search.
C24_WitnessSearch ==
  \E k \in 1..Len(scanItems) :
    /\ scanItems[k].rawType = "tv" /\ ~services.catalog.tv[1].ok
    /\ scanItems[k].confidence = "unmatched"
    /\ scans[scanItems[k].scanId].status = "complete"

\* A scan has completed with an item matched by a search whose detail fetch failed.
C24_WitnessDetails ==
  \E k \in 1..Len(scanItems) :
    /\ scanItems[k].type = "tv" /\ ~services.catalog.tvDetails.ok
    /\ scanItems[k].confidence # "unmatched" /\ scanItems[k].imdbId = Null
    /\ scans[scanItems[k].scanId].status = "complete"

\* ───────────────────────── Properties of the TV searches ─────────────────────────
TVResolved == resolve.op = "single" /\ resolve.item.type = "tv"
Stripped == extractSeriesName(resolve.item.title)

\* The three searches TV matching can issue, in their order.
TVSearchOrder ==
  <<TVSearch(Stripped, resolve.item.year), TVSearch(resolve.item.title, resolve.item.year),
    TVSearch(Stripped, NoYear)>>

\* The searches among the requests of a resolution.
SearchesOf(out) == SelectSeq(out.reqs, LAMBDA q : q.op = "searchTV")

\* The place in TVSearchOrder of request k of reqs.
PlaceOf(reqs, k) ==
  IF k = 1 THEN 1
  ELSE IF reqs[k].year = NoYear /\ resolve.item.year # NoYear THEN 3
  ELSE 2

\* What the catalog returned to request k.
Returned25(reqs, k) == searchTMDBTV(resolve.world.tv[PlaceOf(reqs, k)])

SearchesInOrder(reqs) ==
  /\ Len(reqs) \in 1..3
  /\ \A k \in 1..Len(reqs) : reqs[k] = TVSearchOrder[PlaceOf(reqs, k)]
  /\ \A j \in 1..Len(reqs), k \in 1..Len(reqs) : j < k => PlaceOf(reqs, j) < PlaceOf(reqs, k)
  /\ \A j \in 1..Len(reqs), k \in 1..Len(reqs) : j < k => Returned25(reqs, j) = <<>>

\* The candidates scored are those of the last request, the first that returned any.
ScoresFirstAnswer(out) ==
  IF Returned25(SearchesOf(out), Len(SearchesOf(out))) = <<>>
  THEN ~out.threw /\ out.item.confidence = "unmatched"
  ELSE ~out.threw /\ out.item.confidence # "unmatched" =>
         \E i \in 1..Len(Returned25(SearchesOf(out), Len(SearchesOf(out)))) :
           Returned25(SearchesOf(out), Len(SearchesOf(out)))[i].id = out.item.tmdbId

\* C25: TV matching issues at most three primary-catalog searches, in this
\* order: the suffix-stripped title with the year, the original title with the
\* year, then a search with no year filter; each later search is issued only
\* if every earlier one returned zero results, and the candidates scored are
\* those of the first search that returned any.
C25_TVSearchOrder ==
  TVResolved => SearchesInOrder(SearchesOf(resolve.out)) /\ ScoresFirstAnswer(resolve.out)

\* All three searches were issued and the third one gave the match.
C25_Witness ==
  /\ TVResolved /\ Len(SearchesOf(resolve.out)) = 3
  /\ ~resolve.out.threw /\ resolve.out.item.confidence # "unmatched"

\* ───────────────────────── Properties of the library match ─────────────────────────
LibraryMatched == resolve.op = "plexMatched"

\* Both years are there: given when strict, given and not zero otherwise.
BothYears(strict, year, plexYear) ==
  /\ year # NoYear /\ plexYear # NoYear
  /\ strict \/ (year # 0 /\ plexYear # 0)

\* The library items that satisfy the title and the year condition.
Qualifying(strict) ==
  {i \in 1..Len(resolve.plexItems) :
     /\ TitlesOverlap(normalizeTitle(resolve.title), normalizeTitle(resolve.plexItems[i].title))
     /\ BothYears(strict, resolve.year, resolve.plexItems[i].year) =>
          Abs(resolve.year - resolve.plexItems[i].year) <= 1}

FirstQualifying(strict) ==
  LibraryMatched =>
    /\ resolve.out.matched <=> Qualifying(strict) # {}
    /\ resolve.out.matched =>
         /\ Qualifying(strict) # {}
         /\ resolve.out.plexRatingKey = resolve.plexItems[SetMin(Qualifying(strict))].ratingKey
         /\ resolve.out.imdbId = resolve.plexItems[SetMin(Qualifying(strict))].guids.imdbId

\* C26 as stated: the library match returns the first library item, in
\* library order, whose normalized title equals the normalized query title or
\* contains it or is contained in it, and whose year differs from the query
\* year by at most 1 whenever both years are present; no match otherwise.
C26_FirstLibraryMatch == FirstQualifying(TRUE)

\* C26, amended: the same, the year condition applying whenever both years
\* are present and not zero.
C26_FirstLibraryMatchNonZero == FirstQualifying(FALSE)

\* The first library item overlapped in title and failed on the year, and
\* the second one was returned.
C26_Witness ==
  /\ LibraryMatched /\ resolve.out.matched /\ Len(resolve.plexItems) = 2
  /\ TitlesOverlap(normalizeTitle(resolve.title), normalizeTitle(resolve.plexItems[1].title))
  /\ Qualifying(FALSE) = {2}
  /\ resolve.out.plexRatingKey = resolve.plexItems[2].ratingKey

\* Two library items qualified and the first one was returned.
C26_WitnessFirst ==
  /\ LibraryMatched /\ Qualifying(FALSE) = {1, 2}
  /\ resolve.plexItems[1].ratingKey # resolve.plexItems[2].ratingKey
  /\ resolve.out.plexRatingKey = resolve.plexItems[1].ratingKey

\* ───────────────────────── Properties of the adapter caches ─────────────────────────
\* A login is requested only by a caller that found no usable token.
LoginOnlyWhenStale ==
  \A c \in DOMAIN callers :
    (callers[c].pc = "idle" /\ callers'[c].pc = "login") => ~tokenUsable(memo, memo.clock)

\* A failed login leaves the cache as it was.
FailedLoginKeepsCache ==
  \A c \in DOMAIN callers :
    (callers[c].pc = "login" /\ callers'[c].last = "threw") =>
      /\ memo'.cachedToken = memo.cachedToken
      /\ memo'.tokenExpiresAt = memo.tokenExpiresAt

\* The recorded expiry belongs to the cached token.
ExpiryOfCachedToken ==
  memo.cachedToken # NoToken => memo.tokenExpiresAt = memo.cachedToken.started + TOKEN_LIFETIME_MS

\* C27: under any interleaving of concurrent supplemental-catalog requests a
\* login is requested only by a caller that found the cached token absent or
\* expired; whenever a cached token is present its recorded expiry is 27 days
\* after the start of the login call that produced it; and a failed login
\* leaves the cached token and its expiry unchanged.
C27_TokenCache ==
  []ExpiryOfCachedToken /\ [][LoginOnlyWhenStale /\ FailedLoginKeepsCache]_vars

\* Two logins raced; the one that started first settled last and its token
\* and expiry replaced those of the other, after the clock had moved.
C27_Witness ==
  /\ memo.cachedToken # NoToken /\ memo.cachedToken.started = 0
  /\ memo.clock > 0
  /\ \E c \in DOMAIN callers :
       /\ c # memo.cachedToken.by /\ callers[c].last = "token"
       /\ \A d \in DOMAIN callers : callers[d].pc = "idle"

\* C28: under any interleaving of concurrent enrichments the genre cache is
\* append-only and, once its loaded flag is set, shared read-only: no entry is
\* ever removed, and after the flag is set the cache contents never change and
\* no further genre-list request is issued for the rest of the process lifetime.
C28_GenreCacheReadOnlyOnceLoaded ==
  [][/\ memo.genreCache \subseteq memo'.genreCache
     /\ memo.genreCacheLoaded =>
          /\ memo'.genreCacheLoaded
          /\ memo'.genreCache = memo.genreCache
          /\ \A c \in DOMAIN callers : callers[c].pc = "idle" => callers'[c].pc # "genres"]_vars

\* The parts of C28 that hold: no entry is removed, the flag stays set, and a
\* call that finds the flag set issues no request.
GenreCacheAppendOnly ==
  [][/\ memo.genreCache \subseteq memo'.genreCache
     /\ memo.genreCacheLoaded =>
          /\ memo'.genreCacheLoaded
          /\ \A c \in DOMAIN callers : callers[c].pc = "idle" => callers'[c].pc # "genres"]_vars

\* ───────────────────────── Properties of the event stream ─────────────────────────
IsPrefix(s, full) == Len(s) <= Len(full) /\ s = SubSeq(full, 1, Len(s))

\* What a full scan that completes writes to its stream.
CompleteStream ==
  <<Ev("created", "scanId"), Ev("status", "analyzing"), Ev("status", "enriching"),
    Ev("status", "complete"), Ev("complete", "scan")>>

\* What a full scan that fails after k events of the above writes.
FailedStream(k) ==
  SubSeq(CompleteStream, 1, k) \o <<Ev("status", "error"), Ev("error", "message")>>

\* The events of a full scan are the beginning of one of these streams.
EventsInOrder ==
  \A r \in FullScans :
    \/ IsPrefix(runs[r].events, CompleteStream)
    \/ \E k \in 2..3 : IsPrefix(runs[r].events, FailedStream(k))

\* At most one terminal event, and nothing behind it.
OneTerminalEventLast ==
  \A r \in Streaming :
    /\ Cardinality(TerminalEvents(runs[r].events)) <= 1
    /\ TerminalEvents(runs[r].events) \subseteq {Len(runs[r].events)}
    /\ TerminalEvents(runs[r].events) # {} => ~runs[r].open

\* A status event is written with that status persisted; a stream that is
\* closed or cancelled gets no further event.
StreamStep ==
  \A r \in RunIds :
    (runs[r].http = "stream" /\ runs'[r].http = "stream") =>
      /\ ~runs[r].open => runs'[r].events = runs[r].events
      /\ IsPrefix(runs[r].events, runs'[r].events)
      /\ \A k \in (Len(runs[r].events) + 1)..Len(runs'[r].events) :
           runs'[r].events[k].event = "status" =>
             /\ scans'[runs'[r].scan].exists
             /\ scans'[runs'[r].scan].status = runs'[r].events[k].arg

\* A send that is dropped does not disturb the pipeline: a run whose client
\* went away writes its statuses all the same.
DroppedSendsDoNotRaise ==
  \A r \in FullScans :
    /\ OrderedWrites(runs[r].writes)
    /\ (runs[r].pc = "done" /\ runs[r].http = "stream") => runs[r].writes = StatusOrder
    /\ runs[r].pc = "failed" => Last(runs[r].writes) = "error"

\* C29: the events written to one run's stream are ordered: in a full scan
\* the created event comes first and the status events follow in the order
\* analyzing, enriching, complete, each written only after that status was
\* persisted; a stream carries at most one terminal event, never both complete
\* and error; and no event is delivered after the terminal event, after the
\* stream was closed, or after the client cancelled it, such sends being
\* dropped without raising into the pipeline.
C29_StreamOrdered ==
  /\ [](EventsInOrder /\ OneTerminalEventLast /\ DroppedSendsDoNotRaise)
  /\ [][StreamStep]_vars

\* A full scan completed after its client had cancelled the stream between
\* the enriching status and the end: the stream stops there.
C29_Witness ==
  \E r \in FullScans :
    /\ runs[r].pc = "done" /\ runs[r].http = "stream"
    /\ runs[r].events = SubSeq(CompleteStream, 1, 3)
    /\ runs[r].writes = StatusOrder

\* A full scan that ran to its end with the client listening.
C29_WitnessComplete ==
  \E r \in FullScans : runs[r].pc = "done" /\ runs[r].events = CompleteStream

\* A full scan that failed while enriching with the client listening.
C29_WitnessFailed ==
  \E r \in FullScans : runs[r].pc = "failed" /\ runs[r].events = FailedStream(3)

\* ───────────────────────── Properties of the browser's stream parser ─────────────────────────
\* C30: the client-side stream parser hands every event the server wrote to
\* the client's handler exactly once and in the order written, however the
\* byte stream is split into read chunks, including a split that falls
\* between an event's event line and its data line or inside a line.
C30_EveryEventHandledOnce == client.pc = "done" => client.handled = client.written

RECURSIVE IsSubsequence(_, _)
IsSubsequence(s, full) ==
  IF s = <<>> THEN TRUE
  ELSE IF full = <<>> THEN FALSE
  ELSE IF Head(s) = Head(full) THEN IsSubsequence(Tail(s), Tail(full))
  ELSE IsSubsequence(s, Tail(full))

\* What the parser does guarantee: no event is handled twice or out of
\* order, and none is lost unless a read ended behind the event line of an
\* event and before its end.
ParserDeliversInOrder ==
  /\ IsSubsequence(client.handled, client.written)
  /\ (client.pc = "done" /\ ~client.split) => client.handled = client.written

\* A stream read to its end with a read ending inside an event line and none
\* ending further inside an event: every event was handled.
ParserWitnessInsideLine ==
  /\ client.pc = "done" /\ client.handled = client.written
  /\ ~client.split /\ client.lineSplit

====
